---------------------------- MODULE Spec2Model ----------------------------
(***************************************************************************)
(* Model of the GPU compute simulator: the kernel-level scheduler with its *)
(* four policies (scheduler.cpp), the workload / block / warp data model   *)
(* (workload.cpp, warp.cpp), the compute unit with its warp ready queue    *)
(* (compute_unit.cpp) and the device with its dispatcher thread, its CU    *)
(* driver threads and the caller of start / waitForCompletion / stop       *)
(* (gpu_device.cpp).                                                       *)
(*                                                                         *)
(* SchedSpec drives the scheduler alone through its public operations.     *)
(* DevSpec runs the whole device: caller, dispatcher and CU drivers        *)
(* interleave at the granularity of their critical sections and of their   *)
(* unlocked reads.  LiveSpec is the device under fair scheduling with a    *)
(* caller that submits, starts and then waits.                             *)
(***************************************************************************)
EXTENDS Naturals, Integers, Sequences, FiniteSets

(***************************************************************************)
(* Bounds of the model.                                                    *)
(***************************************************************************)
\* kernels the caller of the scheduler may create (A, B, C, D of the seed test);
\* kernel k is the k-th workload object handed to addWorkload
MaxKernels == 4

Kernels == 1..MaxKernels

\* largest grid dimension of the kernels a test driver creates
MaxGrid == 2

\* width of MemoryAddress and size_t, 64 bits in the source, scaled
WordBits == 3

\* GlobalMemory::size_, GLOBAL_MEMORY_SIZE (8 GB) in the source, scaled to the width
MemSize == 4

\* successful accesses a test driver makes to the global memory
MaxAccesses == 3

\* simulateCycle calls a test driver makes on a CU that has no ready warp
MaxIdle == 1

\* GPUConfig::num_compute_units of the modelled device (68 by default)
NumCUs == 2

\* blocks of all the kernels submitted to one device, taken together (a kernel
\* without blocks counts as one)
MaxDevBlocks == 3

\* ComputeUnit::max_blocks_per_cu_, 16 in the source, scaled to the grids above
MaxBlocksPerCU == 2

\* ComputeUnit::max_warps_per_cu_, 64 in the source, scaled to the blocks above
MaxWarpsPerCU == 3

\* WarpScheduler::max_warps_: warp_scheduler_(64), the same 64
QueueMaxWarps == MaxWarpsPerCU

\* instructions after which simulateCycle marks a warp COMPLETED, 1000 in the
\* source, scaled to two batches
WarpDoneInstr == 16

\* executeWarp(warp, 8)
InstrPerBatch == 8

WARP_SIZE == 32

\* GlobalMemory: Memory(size, 400)
GlobalLatency == 400

CUs == 1..NumCUs

\* threads_per_block of the kernels submitted to the device: one partial
\* warp, or one full and one partial warp
ThreadChoices == {20, 40}

\* threads_per_block of the kernels a test driver creates: none, partial warps,
\* whole warps, whole warps and a partial one, up to four warps
BlockShapes == {0, 1, 20, 32, 33, 64, 65, 97}

NoBlock == <<0, 0>>

NoWarp == <<0, 0, 0>>

\* a slot of cfg no kernel has been created for
NoConfig == [gx |-> 0, gy |-> 0, gz |-> 0, threads |-> 0]

\* no call made yet
NoCall == <<"none">>

\* GlobalMemory::GlobalMemory: every counter 0
MemoryInit ==
    [access_count |-> 0, read_count |-> 0, write_count |-> 0, bytes_read |-> 0,
     bytes_written |-> 0]

Policies == {"FIFO", "PRIORITY", "ROUND_ROBIN", "SJF"}

\* enum class ExecutionState
ExecutionStates == {"IDLE", "READY", "RUNNING", "MEMORY_STALLED", "COMPLETED"}

(***************************************************************************)
(* Workload attributes (workload.h: priority_, estimated_instructions_).   *)
(* A profile fixes the attributes the caller gave the kernels it creates.  *)
(* Profile 1 is the seed test: A(1,1000) B(5,500) C(3,200) D(5,900);       *)
(* profile 2 has ties in both attributes, profile 3 has all kernels equal  *)
(* (the constructor's defaults).                                           *)
(***************************************************************************)
PrioTable == << <<1, 5, 3, 5>>, <<5, 1, 5, 5>>, <<0, 0, 0, 0>> >>

EstTable == << <<1000, 500, 200, 900>>, <<200, 500, 200, 200>>, <<0, 0, 0, 0>> >>

Profiles == 1..Len(PrioTable)

Wrap(k) == ((k - 1) % 4) + 1

VARIABLES
    policy,         \* which Scheduler subclass is installed
    profile,        \* attributes of the kernels (see PrioTable / EstTable)
    pending,        \* Scheduler::pending_workloads_
    running,        \* Scheduler::running_workloads_
    completed,      \* Scheduler::completed_workloads_
    current_index,  \* RoundRobinScheduler::current_index_
    submitted,      \* history: number of addWorkload calls so far
    dispatched,     \* history: the kernels getNextWorkload returned, in order
    first_at,       \* history: the value of submitted at the first of these calls
    cfg,            \* Workload::config_ per kernel: grid dimensions, threads per block
    thread_blocks,  \* Workload::thread_blocks_ per kernel: ids of the blocks left
    wl_completed,   \* Workload::completed_ per kernel
    warps,          \* per generated warp: Warp::state_, Warp::instructions_executed_,
                    \* Warp::program_counter_, Warp::cycles_stalled_
                    \* (kept after the block is destroyed, as it was then)
    blk_completed,  \* the blocks whose ThreadBlock::completed_ is set
    assigned,       \* history: the blocks handed to a CU by assignBlock
    active_blocks,  \* ComputeUnit::active_blocks_ per CU
    ready_queue,    \* WarpScheduler::ready_queue_ per CU
    cu_state,       \* ComputeUnit::state_ per CU
    cu_running,     \* ComputeUnit::running_ per CU
    cycles_executed, \* ComputeUnit::cycles_executed_ per CU
    idle_cycles,    \* ComputeUnit::idle_cycles_ per CU
    instructions_executed, \* ComputeUnit::instructions_executed_ per CU
    warps_executed, \* ComputeUnit::warps_executed_ per CU: the executeWarp calls made
    cycles_stalled, \* ComputeUnit::cycles_stalled_ per CU: the increments made so far
                    \* (the constructor leaves the member without a value)
    total_memory_ops, \* MemoryController::total_memory_ops_
    cuPc,           \* where each CU driver thread is
    cuWarp,         \* the warp simulateCycle has fetched
    dev_running,    \* GPUDevice::running_
    dPc,            \* where the dispatcher thread is
    dWl,            \* distributorThread's workload (0: none)
    dBlock,         \* distributorThread's block, between pull and hand-off
    workload_metrics, \* PerformanceAnalyzer::workload_metrics_: the kernel of each record
    mPc,            \* where the caller of the device is
    inWait,         \* the caller's stop() was called by waitForCompletion
    simulation_active, \* GPUDevice::simulation_active_
    total_workloads_executed, \* gpu_metrics_.total_workloads_executed
    global_memory,  \* GlobalMemory: its five counters
    test_queue,     \* WarpScheduler::ready_queue_ of a warp scheduler a test made
    cu_mutex,       \* ComputeUnit::cu_mutex_ per CU: the thread that holds it, or "free"
    queue_mutex,    \* WarpScheduler::queue_mutex_ per CU: likewise
    scheduler_mutex, \* Scheduler::scheduler_mutex_: the thread that holds it, or "free"
    device_mutex,   \* GPUDevice::device_mutex_: likewise
    call            \* the last call a test driver made on a unit, with its result

schedVars == <<policy, profile, pending, running, completed, current_index>>

histVars == <<submitted, dispatched, first_at>>

wlVars == <<cfg, thread_blocks, wl_completed, warps, blk_completed, assigned>>

cuCounters ==
    <<cycles_executed, idle_cycles, instructions_executed, warps_executed,
      cycles_stalled, total_memory_ops>>

cuVars == <<active_blocks, ready_queue, cu_state, cu_running, cuPc, cuWarp, cuCounters>>

dispVars == <<dPc, dWl, dBlock, workload_metrics>>

analyzerVars == <<simulation_active, total_workloads_executed>>

\* the mutexes show in LockSpec and MutexSpec alone; everywhere else a critical
\* section is one step and leaves them free
lockVars == <<cu_mutex, queue_mutex, scheduler_mutex, device_mutex>>

driverVars == <<global_memory, test_queue, call, lockVars>>

mainVars == <<mPc, inWait, analyzerVars, driverVars>>

devVars == <<wlVars, cuVars, dev_running, dispVars, mainVars>>

vars == <<schedVars, histVars, devVars>>

getPriority(k) == PrioTable[profile][Wrap(k)]

getEstimatedInstructions(k) == EstTable[profile][Wrap(k)]

(***************************************************************************)
(* Sequence helpers: std::find, vector::erase.                             *)
(***************************************************************************)
Range(s) == {s[i] : i \in 1..Len(s)}

\* std::find: index of the first occurrence, 0 when absent (end())
Find(s, x) ==
    IF x \in Range(s) THEN CHOOSE i \in 1..Len(s) : s[i] = x /\ \A j \in 1..(i-1) : s[j] # x
    ELSE 0

\* vector::erase(begin() + (i-1)): the later elements keep their order
Erase(s, i) == [j \in 1..(Len(s) - 1) |-> IF j < i THEN s[j] ELSE s[j + 1]]

(***************************************************************************)
(* The comparators handed to std::max_element / std::min_element.          *)
(***************************************************************************)
\* a comparator that also answers true on equal priorities
PrioLessEq(a, b) == getPriority(a) <= getPriority(b)

PrioLess(a, b) == getPriority(a) < getPriority(b)

\* a comparator that also answers true on equal estimates
EstLessEq(a, b) == getEstimatedInstructions(a) <= getEstimatedInstructions(b)

EstLess(a, b) == getEstimatedInstructions(a) < getEstimatedInstructions(b)

\* std::max_element: largest = first; for each later it: if comp(*largest, *it) largest = it
RECURSIVE MaxElementPrio(_, _, _)
MaxElementPrio(s, i, largest) ==
    IF i > Len(s) THEN largest
    ELSE MaxElementPrio(s, i + 1, IF PrioLess(s[largest], s[i]) THEN i ELSE largest)

\* std::min_element: smallest = first; for each later it: if comp(*it, *smallest) smallest = it
RECURSIVE MinElementEst(_, _, _)
MinElementEst(s, i, smallest) ==
    IF i > Len(s) THEN smallest
    ELSE MinElementEst(s, i + 1, IF EstLess(s[i], s[smallest]) THEN i ELSE smallest)

\* a cursor that steps to the next slot on every call
RoundRobinCursorAdvancing(n) == (current_index + 1) % n

\* current_index_ = current_index_ % pending_workloads_.size()
RoundRobinCursor(n) == current_index % n

\* a FIFO that takes the back of the pending list
NextIndexFifoBack ==
    CASE policy = "FIFO" -> Len(pending)
      [] policy = "PRIORITY" -> MaxElementPrio(pending, 2, 1)
      [] policy = "ROUND_ROBIN" -> RoundRobinCursor(Len(pending)) + 1
      [] policy = "SJF" -> MinElementEst(pending, 2, 1)

\* the vector index (1-based) each policy's getNextWorkload picks in a
\* non-empty pending list
NextIndex ==
    CASE policy = "FIFO" -> 1
      [] policy = "PRIORITY" -> MaxElementPrio(pending, 2, 1)
      [] policy = "ROUND_ROBIN" -> RoundRobinCursor(Len(pending)) + 1
      [] policy = "SJF" -> MinElementEst(pending, 2, 1)

\* a round-robin that steps its cursor past the slot it took
NextCursorStepping ==
    IF policy = "ROUND_ROBIN" THEN RoundRobinCursor(Len(pending)) + 1 ELSE current_index

\* what the call leaves in current_index_ (only RoundRobinScheduler has one)
NextCursor ==
    IF policy = "ROUND_ROBIN" THEN RoundRobinCursor(Len(pending)) ELSE current_index

(***************************************************************************)
(* Scheduler operations, each one critical section under scheduler_mutex_. *)
(***************************************************************************)
AddWorkload(k) ==
    /\ k = submitted + 1
    /\ submitted' = submitted + 1
    /\ pending' = Append(pending, k)
    /\ UNCHANGED <<policy, profile, running, completed, current_index, dispatched, first_at>>

\* a markWorkloadRunning that pushes the kernel onto running whether or not it
\* was found in pending
MarkWorkloadRunningAlways(k) ==
    /\ LET it == Find(pending, k) IN
         IF it # 0
         THEN /\ pending' = Erase(pending, it)
              /\ running' = Append(running, k)
         ELSE /\ running' = Append(running, k)
              /\ UNCHANGED pending
    /\ UNCHANGED <<policy, profile, completed, current_index, histVars>>

MarkWorkloadRunning(k) ==
    /\ LET it == Find(pending, k) IN
         IF it # 0
         THEN /\ pending' = Erase(pending, it)
              /\ running' = Append(running, k)
         ELSE UNCHANGED <<pending, running>>
    /\ UNCHANGED <<policy, profile, completed, current_index, histVars>>

\* a markWorkloadCompleted that forgets the push_back onto completed
MarkWorkloadCompletedLost(k) ==
    /\ LET it == Find(running, k) IN
         IF it # 0
         THEN /\ running' = Erase(running, it)
              /\ UNCHANGED completed
         ELSE UNCHANGED <<running, completed>>
    /\ UNCHANGED <<policy, profile, pending, current_index, histVars>>

\* a markWorkloadCompleted that pushes the kernel back onto pending
MarkWorkloadCompletedRequeue(k) ==
    /\ LET it == Find(running, k) IN
         IF it # 0
         THEN /\ running' = Erase(running, it)
              /\ pending' = Append(pending, k)
              /\ UNCHANGED completed
         ELSE UNCHANGED <<pending, running, completed>>
    /\ UNCHANGED <<policy, profile, current_index, histVars>>

MarkWorkloadCompleted(k) ==
    /\ LET it == Find(running, k) IN
         IF it # 0
         THEN /\ running' = Erase(running, it)
              /\ completed' = Append(completed, k)
         ELSE UNCHANGED <<running, completed>>
    /\ UNCHANGED <<policy, profile, pending, current_index, histVars>>

\* the body the four getNextWorkload overrides share: nullptr on an empty
\* pending list, else erase the picked kernel and push it onto running
GetNextWorkload ==
    IF pending = <<>>
    THEN UNCHANGED <<schedVars, histVars>>
    ELSE /\ pending' = Erase(pending, NextIndex)
         /\ running' = Append(running, pending[NextIndex])
         /\ current_index' = NextCursor
         /\ dispatched' = Append(dispatched, pending[NextIndex])
         /\ first_at' = IF dispatched = <<>> THEN submitted ELSE first_at
         /\ UNCHANGED <<policy, profile, completed, submitted>>

FIFOGetNextWorkload == policy = "FIFO" /\ GetNextWorkload

PriorityGetNextWorkload == policy = "PRIORITY" /\ GetNextWorkload

RoundRobinGetNextWorkload == policy = "ROUND_ROBIN" /\ GetNextWorkload

SJFGetNextWorkload == policy = "SJF" /\ GetNextWorkload

SchedulerInit ==
    /\ pending = <<>>
    /\ running = <<>>
    /\ completed = <<>>
    /\ current_index = 0
    /\ submitted = 0
    /\ dispatched = <<>>
    /\ first_at = 0

\* no kernel created yet
NoWorkloads ==
    /\ cfg = [k \in Kernels |-> NoConfig]
    /\ thread_blocks = [k \in Kernels |-> <<>>]
    /\ warps = <<>>

\* the device as GPUDevice's constructor leaves it
Constructed ==
    /\ wl_completed = [k \in Kernels |-> FALSE]
    /\ blk_completed = {}
    /\ assigned = {}
    /\ active_blocks = [c \in CUs |-> <<>>]
    /\ ready_queue = [c \in CUs |-> <<>>]
    /\ cu_state = [c \in CUs |-> "IDLE"]
    /\ cu_running = [c \in CUs |-> FALSE]
    /\ cuPc = [c \in CUs |-> "none"]
    /\ cuWarp = [c \in CUs |-> NoWarp]
    /\ cycles_executed = [c \in CUs |-> 0]
    /\ idle_cycles = [c \in CUs |-> 0]
    /\ instructions_executed = [c \in CUs |-> 0]
    /\ warps_executed = [c \in CUs |-> 0]
    /\ cycles_stalled = [c \in CUs |-> 0]
    /\ total_memory_ops = 0
    /\ dev_running = FALSE
    /\ dPc = "none"
    /\ dWl = 0
    /\ dBlock = NoBlock
    /\ workload_metrics = <<>>
    /\ mPc = "idle"
    /\ inWait = FALSE
    /\ simulation_active = FALSE
    /\ total_workloads_executed = 0
    /\ global_memory = MemoryInit
    /\ test_queue = <<>>
    /\ cu_mutex = [c \in CUs |-> "free"]
    /\ queue_mutex = [c \in CUs |-> "free"]
    /\ scheduler_mutex = "free"
    /\ device_mutex = "free"
    /\ call = NoCall

\* the device as constructed, nothing submitted
DeviceInit == NoWorkloads /\ Constructed

\* a scheduler of any of the four classes; the attributes matter to the two
\* policies that read them
SchedInit ==
    /\ policy \in Policies
    /\ profile \in (IF policy \in {"PRIORITY", "SJF"} THEN Profiles ELSE {1})
    /\ SchedulerInit
    /\ DeviceInit

SchedNext ==
    \/ \E k \in Kernels : AddWorkload(k) /\ UNCHANGED devVars
    \/ \E k \in Kernels : MarkWorkloadRunning(k) /\ UNCHANGED devVars
    \/ \E k \in Kernels : MarkWorkloadCompleted(k) /\ UNCHANGED devVars
    \/ FIFOGetNextWorkload /\ UNCHANGED devVars
    \/ PriorityGetNextWorkload /\ UNCHANGED devVars
    \/ RoundRobinGetNextWorkload /\ UNCHANGED devVars
    \/ SJFGetNextWorkload /\ UNCHANGED devVars

SchedSpec == SchedInit /\ [][SchedNext]_vars

(***************************************************************************)
(* Workload, thread blocks and warps (workload.cpp, warp.cpp).             *)
(* Block <<k, b>> is block b of kernel k; warp <<k, b, w>> its warp w.     *)
(***************************************************************************)
\* ThreadBlock::ThreadBlock: num_warps = (num_threads + WARP_SIZE - 1) / WARP_SIZE
NumWarps(threads) == (threads + WARP_SIZE - 1) \div WARP_SIZE

\* ThreadBlock::getNumWarps of a block of kernel k
getNumWarps(blk) == NumWarps(cfg[blk[1]].threads)

WarpsOf(blk) == {<<blk[1], blk[2], w>> : w \in 0..(getNumWarps(blk) - 1)}

\* KernelConfig::getTotalBlocks of kernel k
getTotalBlocks(k) == cfg[k].gx * cfg[k].gy * cfg[k].gz

BlocksOf(k) == {<<k, b>> : b \in 0..(getTotalBlocks(k) - 1)}

\* Workload::generateThreadBlocks: total_blocks blocks numbered 0..total_blocks-1,
\* every warp READY with no instruction executed (Warp::Warp)
GeneratedBlocks(total) == [i \in 1..total |-> i - 1]

NewWarps(k, total, threads) ==
    [w \in {<<k, b, i>> : b \in 0..(total - 1), i \in 0..(NumWarps(threads) - 1)}
        |-> [state |-> "READY", instr |-> 0, pc |-> 0, stalled |-> 0]]

\* ThreadBlock::ThreadBlock: threads_in_warp = min(WARP_SIZE, num_threads - i * WARP_SIZE)
ThreadsInWarp(threads, i) ==
    IF WARP_SIZE < threads - i * WARP_SIZE THEN WARP_SIZE ELSE threads - i * WARP_SIZE

\* f overridden by g where g is defined
Override(f, g) ==
    [x \in (DOMAIN f) \cup (DOMAIN g) |-> IF x \in DOMAIN g THEN g[x] ELSE f[x]]

\* what a kernel of total blocks counts towards MaxDevBlocks
Weight(total) == IF total = 0 THEN 1 ELSE total

\* KernelConfig::getTotalBlocks summed over the kernels submitted so far
RECURSIVE SumBlocks(_)
SumBlocks(k) == IF k = 0 THEN 0 ELSE Weight(getTotalBlocks(k)) + SumBlocks(k - 1)

BlocksSubmitted == SumBlocks(submitted)

\* a generateThreadBlocks without thread_blocks_.clear()
generateThreadBlocksNoClear(k, total, threads) ==
    /\ thread_blocks' = [thread_blocks EXCEPT ![k] = @ \o GeneratedBlocks(total)]
    /\ warps' = Override(warps, NewWarps(k, total, threads))

\* Workload::generateThreadBlocks of kernel k, whose configuration gives total
\* blocks of threads threads: the old blocks are destroyed, new ones made
generateThreadBlocks(k, total, threads) ==
    /\ thread_blocks' = [thread_blocks EXCEPT ![k] = GeneratedBlocks(total)]
    /\ warps' = Override(warps, NewWarps(k, total, threads))

\* Workload::hasMoreBlocks
hasMoreBlocks(k) == ~(thread_blocks[k] = <<>>)

\* a getNextBlock that takes the first block left
FirstBlock(k) == <<k, thread_blocks[k][1]>>

\* Workload::getNextBlock takes the last block left
LastBlock(k) == <<k, thread_blocks[k][Len(thread_blocks[k])]>>

\* a getNextBlock that forgets thread_blocks_.pop_back()
PopBackKeeps(s) == s

PopBack(s) == SubSeq(s, 1, Len(s) - 1)

(***************************************************************************)
(* Compute unit and its warp scheduler (compute_unit.cpp).                 *)
(***************************************************************************)
RECURSIVE SumWarps(_)
SumWarps(blocks) ==
    IF blocks = <<>> THEN 0 ELSE getNumWarps(Head(blocks)) + SumWarps(Tail(blocks))

getActiveWarpCount(c) == SumWarps(active_blocks[c])

\* an admission test that forgets the warp budget
canAcceptBlockNoWarpCheck(c, blk) == Len(active_blocks[c]) < MaxBlocksPerCU

canAcceptBlock(c, blk) ==
    /\ blk # NoBlock
    /\ ~(Len(active_blocks[c]) >= MaxBlocksPerCU)
    /\ ~(getActiveWarpCount(c) + getNumWarps(blk) > MaxWarpsPerCU)

\* an addWarp without the test of the queue's size
addWarpUnbounded(q, w) ==
    IF w # NoWarp /\ warps[w].state = "READY" THEN Append(q, w)
    ELSE q

\* WarpScheduler::addWarp on queue q: refused when full, or when the warp is
\* null or not READY
addWarp(q, w) ==
    IF Len(q) >= QueueMaxWarps THEN q
    ELSE IF w # NoWarp /\ warps[w].state = "READY" THEN Append(q, w)
    ELSE q

\* what that addWarp returns
addWarpReturn(q, w) ==
    IF Len(q) >= QueueMaxWarps THEN FALSE
    ELSE IF w # NoWarp /\ warps[w].state = "READY" THEN TRUE
    ELSE FALSE

\* the loop of assignBlock offering warps 0..n-1 of the block in order
RECURSIVE AddWarpsFrom(_, _, _)
AddWarpsFrom(q, blk, w) ==
    IF w >= getNumWarps(blk) THEN q
    ELSE AddWarpsFrom(addWarp(q, <<blk[1], blk[2], w>>), blk, w + 1)

\* an assignBlock that trusts its caller's test
assignBlockNoRetest(c, blk) ==
    /\ ready_queue' = [ready_queue EXCEPT ![c] = AddWarpsFrom(@, blk, 0)]
    /\ active_blocks' = [active_blocks EXCEPT ![c] = Append(@, blk)]
    /\ cu_state' = [cu_state EXCEPT ![c] = "RUNNING"]
    /\ assigned' = assigned \cup {blk}

\* ComputeUnit::assignBlock under cu_mutex_: the admission test again, then
\* the warps are offered to the warp scheduler and the block is kept
assignBlock(c, blk) ==
    IF ~canAcceptBlock(c, blk)
    THEN UNCHANGED <<active_blocks, ready_queue, cu_state, assigned>>
    ELSE /\ ready_queue' = [ready_queue EXCEPT ![c] = AddWarpsFrom(@, blk, 0)]
         /\ active_blocks' = [active_blocks EXCEPT ![c] = Append(@, blk)]
         /\ cu_state' = [cu_state EXCEPT ![c] = "RUNNING"]
         /\ assigned' = assigned \cup {blk}

\* std::remove_if(... block->isCompleted()) + erase
RECURSIVE RemoveCompleted(_)
RemoveCompleted(blocks) ==
    IF blocks = <<>> THEN <<>>
    ELSE IF Head(blocks) \in blk_completed THEN RemoveCompleted(Tail(blocks))
    ELSE <<Head(blocks)>> \o RemoveCompleted(Tail(blocks))

\* ComputeUnit::removeCompletedBlocks on every CU (the dispatcher's for-loops)
RemoveCompletedBlocksAll ==
    /\ active_blocks' = [c \in CUs |-> RemoveCompleted(active_blocks[c])]
    /\ cu_state' = [c \in CUs |->
                      IF RemoveCompleted(active_blocks[c]) = <<>> THEN "IDLE" ELSE cu_state[c]]

\* ComputeUnit::isIdle, evaluated on the state after the step
isIdleAfter(c) == active_blocks'[c] = <<>> /\ cu_state'[c] = "IDLE"

\* the block-completion sweep of simulateCycle, given the warps after the batch
AllWarpsDone(ws, blk) == \A w \in WarpsOf(blk) : ws[w].state = "COMPLETED"

Swept(c, ws) == {active_blocks[c][i] : i \in {j \in 1..Len(active_blocks[c]) :
                                               AllWarpsDone(ws, active_blocks[c][j])}}

\* utilizations are doubles in the source; here they are integers in units of
\* 1 / PerCent of a percentage point, rounded down
PerCent == 1000

\* a utilization that reports the idle share of the cycles
getUtilizationIdleShare(c) ==
    IF cycles_executed[c] = 0 THEN 0
    ELSE (idle_cycles[c] * 100 * PerCent) \div cycles_executed[c]

\* ComputeUnit::getUtilization: 0 without cycles, else active / total * 100
getUtilization(c) ==
    IF cycles_executed[c] = 0 THEN 0
    ELSE ((cycles_executed[c] - idle_cycles[c]) * 100 * PerCent) \div cycles_executed[c]

RECURSIVE SumUtilization(_)
SumUtilization(c) == IF c = 0 THEN 0 ELSE getUtilization(c) + SumUtilization(c - 1)

\* GPUDevice::getAverageUtilization: total_util / compute_units_.size()
getAverageUtilization == SumUtilization(NumCUs) \div NumCUs

\* executeWarp(warp, 8): of i = 0..7 only i = 0 has i % 5 == 0 and i % 10 == 0,
\* and that stall adds getLatency() / 10 to cycles_executed_
StallCycles == GlobalLatency \div 10

\* the counters executeWarp touches, as it finds them for warp w on CU c; states
\* collects the values it gives Warp::state_, in order
Counters(c, w) ==
    [instr |-> warps[w].instr, pc |-> warps[w].pc, stalled |-> warps[w].stalled,
     cu_instr |-> instructions_executed[c], cu_warps |-> warps_executed[c],
     cu_stalled |-> cycles_stalled[c],
     cycles |-> cycles_executed[c], memory_ops |-> total_memory_ops, states |-> <<>>]

\* an instruction loop that takes every fifth instruction for a stalling one
RECURSIVE executeWarpLoopStallEveryFifth(_, _, _)
executeWarpLoopStallEveryFifth(st, i, num_instructions) ==
    IF ~(i < num_instructions) THEN st
    ELSE LET issued == [st EXCEPT !.instr = @ + 1, !.pc = @ + 1, !.cu_instr = @ + 1]
             memory == [issued EXCEPT !.memory_ops = @ + 1]
             stall == [memory EXCEPT !.states = @ \o <<"MEMORY_STALLED", "RUNNING">>,
                                     !.stalled = @ + 1,
                                     !.cu_stalled = @ + 1,
                                     !.cycles = @ + StallCycles]
         IN executeWarpLoopStallEveryFifth(
                IF i % 5 = 0 THEN stall ELSE issued,
                i + 1, num_instructions)

\* the for loop of executeWarp from instruction i on: recordInstruction,
\* incrementPC, instructions_executed_++; if (i % 5 == 0) recordMemoryOp, and
\* if (i % 10 == 0) the stall: MEMORY_STALLED, recordStall, cycles_stalled_++,
\* getLatency() / 10 times cycles_executed_++, RUNNING
RECURSIVE executeWarpLoop(_, _, _)
executeWarpLoop(st, i, num_instructions) ==
    IF ~(i < num_instructions) THEN st
    ELSE LET issued == [st EXCEPT !.instr = @ + 1, !.pc = @ + 1, !.cu_instr = @ + 1]
             memory == [issued EXCEPT !.memory_ops = @ + 1]
             stall == [memory EXCEPT !.states = @ \o <<"MEMORY_STALLED", "RUNNING">>,
                                     !.stalled = @ + 1,
                                     !.cu_stalled = @ + 1,
                                     !.cycles = @ + StallCycles]
         IN executeWarpLoop(
                IF i % 5 = 0 THEN (IF i % 10 = 0 THEN stall ELSE memory) ELSE issued,
                i + 1, num_instructions)

\* ComputeUnit::executeWarp on a warp that is not null: RUNNING, the loop, READY,
\* warps_executed_++
executeWarp(st, num_instructions) ==
    LET looped == executeWarpLoop([st EXCEPT !.states = Append(@, "RUNNING")], 0,
                                  num_instructions)
    IN [looped EXCEPT !.states = Append(@, "READY"), !.cu_warps = @ + 1]

\* a simulateCycle that never marks a warp COMPLETED
WarpAfterAlwaysReady(st, state) ==
    [state |-> "READY", instr |-> st.instr, pc |-> st.pc, stalled |-> st.stalled]

\* the warp's record after executeWarp left the counters st, in state state
WarpAfter(st, state) ==
    [state |-> state, instr |-> st.instr, pc |-> st.pc, stalled |-> st.stalled]

\* CU driver: the thread enters ComputeUnit::run and sets running_
CURun(c) ==
    /\ cuPc[c] = "spawned"
    /\ cu_running' = [cu_running EXCEPT ![c] = TRUE]
    /\ cuPc' = [cuPc EXCEPT ![c] = "loop"]
    /\ UNCHANGED <<schedVars, histVars, wlVars, active_blocks, ready_queue, cu_state,
                   cuWarp, cuCounters, dev_running, dispVars, mainVars>>

\* CU driver: while (running_.load()) sees false
CUExit(c) ==
    /\ cuPc[c] = "loop"
    /\ ~cu_running[c]
    /\ cuPc' = [cuPc EXCEPT ![c] = "exited"]
    /\ UNCHANGED <<schedVars, histVars, wlVars, active_blocks, ready_queue, cu_state,
                   cu_running, cuWarp, cuCounters, dev_running, dispVars, mainVars>>

\* a getNextWarp that leaves the warp it returns in the queue
\* a driver that takes the warp at the back of the queue
CUFetchBack(c) ==
    /\ cuPc[c] = "loop"
    /\ cu_running[c]
    /\ active_blocks[c] # <<>> /\ ready_queue[c] # <<>>
    /\ cuWarp' = [cuWarp EXCEPT ![c] = ready_queue[c][Len(ready_queue[c])]]
    /\ ready_queue' = [ready_queue EXCEPT ![c] = SubSeq(@, 1, Len(@) - 1)]
    /\ cuPc' = [cuPc EXCEPT ![c] = "cycle"]
    /\ cycles_executed' = [cycles_executed EXCEPT ![c] = @ + 1]
    /\ UNCHANGED <<schedVars, histVars, wlVars, active_blocks, cu_state, cu_running,
                   idle_cycles, instructions_executed, warps_executed,
                   cycles_stalled, total_memory_ops,
                   dev_running, dispVars, mainVars>>

CUFetchNoPop(c) ==
    /\ cuPc[c] = "loop"
    /\ cu_running[c]
    /\ active_blocks[c] # <<>> /\ ready_queue[c] # <<>>
    /\ cuWarp' = [cuWarp EXCEPT ![c] = Head(ready_queue[c])]
    /\ cuPc' = [cuPc EXCEPT ![c] = "cycle"]
    /\ cycles_executed' = [cycles_executed EXCEPT ![c] = @ + 1]
    /\ UNCHANGED <<schedVars, histVars, wlVars, active_blocks, ready_queue, cu_state,
                   cu_running, idle_cycles, instructions_executed, warps_executed, cycles_stalled,
                   total_memory_ops, dev_running, dispVars, mainVars>>

\* CU driver: run's test passes and simulateCycle fetches the head of the queue
CUFetch(c) ==
    /\ cuPc[c] = "loop"
    /\ cu_running[c]
    /\ active_blocks[c] # <<>> /\ ready_queue[c] # <<>>
    /\ cuWarp' = [cuWarp EXCEPT ![c] = Head(ready_queue[c])]
    /\ ready_queue' = [ready_queue EXCEPT ![c] = Tail(@)]
    /\ cuPc' = [cuPc EXCEPT ![c] = "cycle"]
    /\ cycles_executed' = [cycles_executed EXCEPT ![c] = @ + 1]
    /\ UNCHANGED <<schedVars, histVars, wlVars, active_blocks, cu_state, cu_running,
                   idle_cycles, instructions_executed, warps_executed,
                   cycles_stalled, total_memory_ops,
                   dev_running, dispVars, mainVars>>

\* CU driver: executeWarp(warp, 8), then either COMPLETED and the sweep under
\* cu_mutex_, or the warp goes back to the tail of the queue
CUCycle(c) ==
    /\ cuPc[c] = "cycle"
    /\ LET w == cuWarp[c]
           st == executeWarp(Counters(c, w), InstrPerBatch)
           ready == [warps EXCEPT ![w] = WarpAfter(st, "READY")]
           done == [warps EXCEPT ![w] = WarpAfter(st, "COMPLETED")]
       IN /\ IF st.instr >= WarpDoneInstr
             THEN /\ warps' = done
                  /\ blk_completed' = blk_completed \cup Swept(c, done)
                  /\ UNCHANGED ready_queue
             ELSE /\ warps' = ready
                  /\ ready_queue' = [ready_queue EXCEPT ![c] = addWarp(@, w)]
                  /\ UNCHANGED blk_completed
          /\ cycles_executed' = [cycles_executed EXCEPT ![c] = st.cycles]
          /\ instructions_executed' = [instructions_executed EXCEPT ![c] = st.cu_instr]
          /\ warps_executed' = [warps_executed EXCEPT ![c] = st.cu_warps]
          /\ cycles_stalled' = [cycles_stalled EXCEPT ![c] = st.cu_stalled]
          /\ total_memory_ops' = st.memory_ops
    /\ cuWarp' = [cuWarp EXCEPT ![c] = NoWarp]
    /\ cuPc' = [cuPc EXCEPT ![c] = "loop"]
    /\ UNCHANGED <<schedVars, histVars, cfg, thread_blocks, wl_completed, assigned,
                   active_blocks, cu_state, cu_running, idle_cycles, dev_running,
                   dispVars, mainVars>>

CUNext(c) == CURun(c) \/ CUExit(c) \/ CUFetch(c) \/ CUCycle(c)

(***************************************************************************)
(* The dispatcher thread (GPUDevice::distributorThread).                   *)
(***************************************************************************)
\* while (running_.load()): the loop ends when the device was stopped
DLoop ==
    /\ dPc = "loop"
    /\ dPc' = IF dev_running THEN "check" ELSE "exited"
    /\ UNCHANGED <<schedVars, histVars, wlVars, cuVars, dev_running, dWl, dBlock,
                   workload_metrics, mainVars>>

\* if (!scheduler_->hasPendingWorkloads()) { sleep; continue; }
DCheck ==
    /\ dPc = "check"
    /\ dPc' = IF pending = <<>> THEN "loop" ELSE "get"
    /\ UNCHANGED <<schedVars, histVars, wlVars, cuVars, dev_running, dWl, dBlock,
                   workload_metrics, mainVars>>

\* getNextWorkload, first half of the critical section: the picked kernel is
\* erased from pending (readers that take no lock can see this state)
DGetErase ==
    /\ dPc = "get"
    /\ IF pending = <<>>
       THEN /\ dPc' = "loop"
            /\ UNCHANGED <<pending, current_index, dWl>>
       ELSE /\ dWl' = pending[NextIndex]
            /\ pending' = Erase(pending, NextIndex)
            /\ current_index' = NextCursor
            /\ dPc' = "push"
    /\ UNCHANGED <<policy, profile, running, completed, histVars, wlVars, cuVars,
                   dev_running, dBlock, workload_metrics, mainVars>>

\* getNextWorkload, second half: running_workloads_.push_back; workload->start()
DGetPush ==
    /\ dPc = "push"
    /\ running' = Append(running, dWl)
    /\ dispatched' = Append(dispatched, dWl)
    /\ first_at' = IF dispatched = <<>> THEN submitted ELSE first_at
    /\ dPc' = "drain"
    /\ UNCHANGED <<policy, profile, pending, completed, current_index, submitted, wlVars,
                   cuVars, dev_running, dWl, dBlock, workload_metrics, mainVars>>

\* while (workload->hasMoreBlocks()) { block = workload->getNextBlock(); ...
DPull ==
    /\ dPc = "drain"
    /\ IF ~hasMoreBlocks(dWl)
       THEN /\ dPc' = "wait"
            /\ UNCHANGED <<thread_blocks, dBlock>>
       ELSE /\ dBlock' = LastBlock(dWl)
            /\ thread_blocks' = [thread_blocks EXCEPT ![dWl] = PopBack(@)]
            /\ dPc' = "offer"
    /\ UNCHANGED <<schedVars, histVars, cfg, wl_completed, warps, blk_completed, assigned,
                   cuVars, dev_running, dWl, workload_metrics, mainVars>>

\* the CUs that pass the admission test, in index order
Accepting(blk) == {c \in CUs : canAcceptBlock(c, blk)}

\* a scan that offers the block to the CUs from the last index down
LastAccepting(blk) == CHOOSE c \in Accepting(blk) : \A d \in Accepting(blk) : c >= d

FirstAccepting(blk) == CHOOSE c \in Accepting(blk) : \A d \in Accepting(blk) : c <= d

\* while (!assigned && running_.load()): with the device stopped the block is
\* given up (it is destroyed at the end of the iteration)
DGiveUp ==
    /\ dPc = "offer"
    /\ ~dev_running
    /\ dBlock' = NoBlock
    /\ dPc' = "drain"
    /\ UNCHANGED <<schedVars, histVars, wlVars, cuVars, dev_running, dWl, workload_metrics,
                   mainVars>>

\* the scan over the CUs finds one that accepts: assignBlock(std::move(block))
DAssign ==
    /\ dPc = "offer"
    /\ dev_running
    /\ Accepting(dBlock) # {}
    /\ assignBlock(FirstAccepting(dBlock), dBlock)
    /\ dBlock' = NoBlock
    /\ dPc' = "drain"
    /\ UNCHANGED <<schedVars, histVars, cfg, thread_blocks, wl_completed, warps,
                   blk_completed, cu_running, cuPc, cuWarp, cuCounters, dev_running, dWl,
                   workload_metrics, mainVars>>

\* no CU accepts: sleep 1 ms, removeCompletedBlocks on every CU, try again
DRetry ==
    /\ dPc = "offer"
    /\ dev_running
    /\ Accepting(dBlock) = {}
    /\ RemoveCompletedBlocksAll
    /\ UNCHANGED <<schedVars, histVars, wlVars, ready_queue, cu_running, cuPc, cuWarp,
                   cuCounters, dev_running, dispVars, mainVars>>

\* a dispatcher that does not wait for the CUs
DWaitIdleSkipped ==
    /\ dPc = "wait"
    /\ dPc' = "complete"
    /\ UNCHANGED <<schedVars, histVars, wlVars, cuVars, dev_running, dWl, dBlock,
                   workload_metrics, mainVars>>

\* while (!all_idle && running_.load()): one pass of removeCompletedBlocks and
\* isIdle over the CUs; the loop ends when all are idle or the device stopped
DWaitIdle ==
    /\ dPc = "wait"
    /\ IF ~dev_running
       THEN /\ dPc' = "complete"
            /\ UNCHANGED <<active_blocks, cu_state>>
       ELSE /\ RemoveCompletedBlocksAll
            /\ dPc' = IF \A c \in CUs : isIdleAfter(c) THEN "complete" ELSE "wait"
    /\ UNCHANGED <<schedVars, histVars, wlVars, ready_queue, cu_running, cuPc, cuWarp,
                   cuCounters, dev_running, dWl, dBlock, workload_metrics, mainVars>>

\* workload->complete()
DComplete ==
    /\ dPc = "complete"
    /\ wl_completed' = [wl_completed EXCEPT ![dWl] = TRUE]
    /\ dPc' = "mark"
    /\ UNCHANGED <<schedVars, histVars, cfg, thread_blocks, warps, blk_completed, assigned,
                   cuVars, dev_running, dWl, dBlock, workload_metrics, mainVars>>

\* a dispatcher that goes on without markWorkloadCompleted
DMarkSkipped ==
    /\ dPc = "mark"
    /\ dPc' = "record"
    /\ UNCHANGED <<schedVars, histVars, wlVars, cuVars, dev_running, dWl, dBlock,
                   workload_metrics, mainVars>>

\* scheduler_->markWorkloadCompleted(workload)
DMark ==
    /\ dPc = "mark"
    /\ MarkWorkloadCompleted(dWl)
    /\ dPc' = "record"
    /\ UNCHANGED <<wlVars, cuVars, dev_running, dWl, dBlock, workload_metrics, mainVars>>

\* an analyzer that puts the newest record first
recordWorkloadMetricsFront(k) == workload_metrics' = <<k>> \o workload_metrics

\* PerformanceAnalyzer::recordWorkloadMetrics: workload_metrics_.push_back(metrics)
recordWorkloadMetrics(k) == workload_metrics' = Append(workload_metrics, k)

\* performance_analyzer_->recordWorkloadMetrics(workload.get(), this); back to the
\* top of the loop
DRecord ==
    /\ dPc = "record"
    /\ recordWorkloadMetrics(dWl)
    /\ dWl' = 0
    /\ dPc' = "loop"
    /\ UNCHANGED <<schedVars, histVars, wlVars, cuVars, dev_running, dBlock, mainVars>>

DispatcherNext ==
    \/ DLoop \/ DCheck \/ DGetErase \/ DGetPush \/ DPull \/ DGiveUp \/ DAssign
    \/ DRetry \/ DWaitIdle \/ DComplete \/ DMark \/ DRecord

(***************************************************************************)
(* The caller: submitWorkload, executeWorkloads, waitForCompletion, stop.  *)
(***************************************************************************)
\* GPUDevice::submitWorkload(nullptr): if (!workload) return
SubmitNull ==
    /\ mPc = "idle"
    /\ UNCHANGED vars

\* GPUDevice::submitWorkload of the caller's next kernel, with its launch shape,
\* before the device is started: generateThreadBlocks, then addWorkload
SubmitWorkload(k, total, threads) ==
    /\ mPc = "idle"
    /\ k \in Kernels
    /\ BlocksSubmitted + Weight(total) <= MaxDevBlocks
    /\ cfg' = [cfg EXCEPT ![k] = [gx |-> total, gy |-> 1, gz |-> 1, threads |-> threads]]
    /\ generateThreadBlocks(k, total, threads)
    /\ AddWorkload(k)
    /\ UNCHANGED <<wl_completed, blk_completed, assigned, cuVars, dev_running, dispVars,
                   mainVars>>

\* GPUDevice::executeWorkloads -> start(): running_ = true, one thread per CU
\* and the dispatcher thread are created
ExecuteWorkloads ==
    /\ mPc = "idle"
    /\ ~dev_running
    /\ dev_running' = TRUE
    /\ cuPc' = [c \in CUs |-> "spawned"]
    /\ dPc' = "loop"
    /\ mPc' = "started"
    /\ simulation_active' = TRUE
    /\ UNCHANGED <<schedVars, histVars, wlVars, active_blocks, ready_queue, cu_state,
                   cu_running, cuWarp, cuCounters, dWl, dBlock, workload_metrics, inWait,
                   total_workloads_executed, driverVars>>

\* the caller enters waitForCompletion
WaitForCompletion ==
    /\ mPc = "started"
    /\ mPc' = "w_pending"
    /\ inWait' = TRUE
    /\ UNCHANGED <<schedVars, histVars, wlVars, cuVars, dev_running, dispVars,
                   analyzerVars, driverVars>>

\* a wait loop that polls the running count alone
WaitReadPendingSkipped ==
    /\ mPc = "w_pending"
    /\ mPc' = "w_running"
    /\ UNCHANGED <<schedVars, histVars, wlVars, cuVars, dev_running, dispVars, inWait,
                   analyzerVars, driverVars>>

\* while (hasPendingWorkloads() || ...): pending read without the lock; the
\* caller sleeps and reads again while it is not empty
WaitReadPending ==
    /\ mPc = "w_pending"
    /\ pending = <<>>
    /\ mPc' = "w_running"
    /\ UNCHANGED <<schedVars, histVars, wlVars, cuVars, dev_running, dispVars, inWait,
                   analyzerVars, driverVars>>

\* ... || getRunningCount() > 0): running read without the lock, later
WaitReadRunning ==
    /\ mPc = "w_running"
    /\ mPc' = IF Len(running) > 0 THEN "w_pending" ELSE "stop"
    /\ UNCHANGED <<schedVars, histVars, wlVars, cuVars, dev_running, dispVars, inWait,
                   analyzerVars, driverVars>>

\* the caller calls stop() itself on the started device
CallStop ==
    /\ mPc = "started"
    /\ mPc' = "stop"
    /\ UNCHANGED <<schedVars, histVars, wlVars, cuVars, dev_running, dispVars, inWait,
                   analyzerVars, driverVars>>

\* a stop() that, on a device that is not running, clears the device metrics
StopFlagClears ==
    /\ mPc = "stop"
    /\ IF dev_running
       THEN /\ dev_running' = FALSE
            /\ mPc' = "stop_cus"
            /\ UNCHANGED analyzerVars
       ELSE /\ mPc' = "returned"
            /\ total_workloads_executed' = 0
            /\ UNCHANGED <<dev_running, simulation_active>>
    /\ UNCHANGED <<schedVars, histVars, wlVars, cuVars, dispVars, inWait, driverVars>>

\* stop(): if (!running_) return; running_.store(false)
StopFlag ==
    /\ mPc = "stop"
    /\ IF dev_running
       THEN /\ dev_running' = FALSE
            /\ mPc' = "stop_cus"
       ELSE /\ mPc' = "returned"
            /\ UNCHANGED dev_running
    /\ UNCHANGED <<schedVars, histVars, wlVars, cuVars, dispVars, inWait, analyzerVars,
                   driverVars>>

\* stop(): for (auto& cu : compute_units_) cu->stop()
StopCUs ==
    /\ mPc = "stop_cus"
    /\ cu_running' = [c \in CUs |-> FALSE]
    /\ mPc' = "join"
    /\ UNCHANGED <<schedVars, histVars, wlVars, active_blocks, ready_queue, cu_state,
                   cuPc, cuWarp, cuCounters, dev_running, dispVars, inWait, analyzerVars,
                   driverVars>>

\* PerformanceAnalyzer::recordGPUMetrics:
\* gpu_metrics_.total_workloads_executed = workload_metrics_.size()
recordGPUMetrics == total_workloads_executed' = Len(workload_metrics)

\* stop(): every thread of cu_threads_ is joined and the vector is cleared; then,
\* if (simulation_active_), recordGPUMetrics and simulation_active_ = false
StopJoin ==
    /\ mPc = "join"
    /\ dPc = "exited"
    /\ \A c \in CUs : cuPc[c] = "exited"
    /\ dPc' = "none"
    /\ cuPc' = [c \in CUs |-> "none"]
    /\ IF simulation_active
       THEN recordGPUMetrics /\ simulation_active' = FALSE
       ELSE UNCHANGED analyzerVars
    /\ mPc' = "returned"
    /\ UNCHANGED <<schedVars, histVars, wlVars, active_blocks, ready_queue, cu_state,
                   cu_running, cuWarp, cuCounters, dev_running, dWl, dBlock,
                   workload_metrics, inWait, driverVars>>

(***************************************************************************)
(* Specifications of the device.                                          *)
(***************************************************************************)
\* the device after construction, with the constructor's FIFOScheduler
DevInit ==
    /\ policy = "FIFO"
    /\ profile = 1
    /\ SchedulerInit
    /\ DeviceInit

\* the launch shapes of the kernels: a grid of 0..MaxDevBlocks blocks; the block
\* shape of a kernel without blocks shows nowhere, so it gets one only
Submit ==
    \E total \in 0..MaxDevBlocks :
        \E threads \in (IF total = 0 THEN {20} ELSE ThreadChoices) :
            SubmitWorkload(submitted + 1, total, threads)

DevNext ==
    \/ Submit
    \/ SubmitNull
    \/ ExecuteWorkloads
    \/ WaitForCompletion
    \/ WaitReadPending
    \/ WaitReadRunning
    \/ CallStop
    \/ StopFlag
    \/ StopCUs
    \/ StopJoin
    \/ DispatcherNext
    \/ \E c \in CUs : CUNext(c)

DevSpec == DevInit /\ [][DevNext]_vars

\* the caller of the liveness claims: it submits, starts the device and waits
\* for completion; nobody else calls stop()
CallerLive ==
    \/ ExecuteWorkloads
    \/ WaitForCompletion
    \/ WaitReadPending
    \/ WaitReadRunning
    \/ StopFlag
    \/ StopCUs
    \/ StopJoin

LiveNext ==
    \/ Submit
    \/ SubmitNull
    \/ CallerLive
    \/ DispatcherNext
    \/ \E c \in CUs : CUNext(c)

\* every thread that can take a step eventually takes one
LiveSpec ==
    /\ DevInit
    /\ [][LiveNext]_vars
    /\ WF_vars(CallerLive)
    /\ WF_vars(DispatcherNext)
    /\ \A c \in CUs : WF_vars(CUNext(c))

(***************************************************************************)
(* A workload driven directly by a test: construction with a grid and a   *)
(* block shape, then generateThreadBlocks and getNextBlock in any order.   *)
(***************************************************************************)
wlRest ==
    <<schedVars, histVars, cfg, wl_completed, blk_completed, assigned, cuVars, dev_running,
      dispVars, mPc, inWait, analyzerVars, global_memory, test_queue, lockVars>>

\* Workload::Workload(name, type, config): kernel 1 with any of the shapes
WlInit ==
    /\ policy = "FIFO"
    /\ profile = 1
    /\ SchedulerInit
    /\ \E gx, gy, gz \in 0..MaxGrid, threads \in BlockShapes :
         cfg = [k \in Kernels |->
                  IF k = 1 THEN [gx |-> gx, gy |-> gy, gz |-> gz, threads |-> threads]
                  ELSE NoConfig]
    /\ thread_blocks = [k \in Kernels |-> <<>>]
    /\ warps = <<>>
    /\ Constructed

\* the test calls workload->generateThreadBlocks(); it notes getRemainingBlocks()
\* as it was before the call
GenerateThreadBlocks(k) ==
    /\ generateThreadBlocks(k, getTotalBlocks(k), cfg[k].threads)
    /\ call' = <<"generateThreadBlocks", k, Len(thread_blocks[k])>>
    /\ UNCHANGED wlRest

\* the test calls workload->getNextBlock(): nullptr when no block is left
GetNextBlock(k) ==
    /\ IF thread_blocks[k] = <<>>
       THEN /\ call' = <<"getNextBlock", k, NoBlock>>
            /\ UNCHANGED thread_blocks
       ELSE /\ call' = <<"getNextBlock", k, LastBlock(k)>>
            /\ thread_blocks' = [thread_blocks EXCEPT ![k] = PopBack(@)]
    /\ UNCHANGED <<warps, wlRest>>

WlNext == GenerateThreadBlocks(1) \/ GetNextBlock(1)

WlSpec == WlInit /\ [][WlNext]_vars

(***************************************************************************)
(* The compute units driven directly by a test, one call at a time: the    *)
(* test makes a kernel, generates its blocks and hands them to the CUs by  *)
(* assignBlock, calls simulateCycle and removeCompletedBlocks.             *)
(***************************************************************************)
\* what no call of such a test changes
unitRest ==
    <<schedVars, histVars, cfg, wl_completed, cu_running, cuPc, cuWarp, dev_running,
      dispVars, mPc, inWait, analyzerVars, global_memory, lockVars>>

\* a device as constructed and the test's kernel 1, total blocks of threads
\* threads, after generateThreadBlocks
DriverInit(total, threads) ==
    /\ policy = "FIFO"
    /\ profile = 1
    /\ SchedulerInit
    /\ cfg = [k \in Kernels |->
                IF k = 1 THEN [gx |-> total, gy |-> 1, gz |-> 1, threads |-> threads]
                ELSE NoConfig]
    /\ thread_blocks = [k \in Kernels |-> IF k = 1 THEN GeneratedBlocks(total) ELSE <<>>]
    /\ warps = NewWarps(1, total, threads)
    /\ Constructed

CuInit == \E total \in 1..MaxDevBlocks, threads \in BlockShapes : DriverInit(total, threads)

\* block = workload->getNextBlock(); can = cu->canAcceptBlock(block.get());
\* ok = cu->assignBlock(std::move(block)): a refused block is destroyed with
\* assignBlock's parameter
TestAssignBlock(c) ==
    /\ hasMoreBlocks(1)
    /\ thread_blocks' = [thread_blocks EXCEPT ![1] = PopBack(@)]
    /\ assignBlock(c, LastBlock(1))
    /\ call' = <<"assignBlock", c, LastBlock(1), canAcceptBlock(c, LastBlock(1)),
                 active_blocks'[c] # active_blocks[c]>>
    /\ UNCHANGED <<unitRest, warps, blk_completed, cuCounters, test_queue>>

\* cu->simulateCycle() called by the test itself: an idle cycle without a ready
\* warp, else one batch of the warp at the head of the queue
TestSimulateCycle(c) ==
    /\ IF ready_queue[c] = <<>>
       THEN /\ idle_cycles[c] < MaxIdle
            /\ cycles_executed' = [cycles_executed EXCEPT ![c] = @ + 1]
            /\ idle_cycles' = [idle_cycles EXCEPT ![c] = @ + 1]
            /\ call' = <<"simulateCycle", c, NoWarp, <<>>>>
            /\ UNCHANGED <<warps, blk_completed, ready_queue, instructions_executed, warps_executed,
                           cycles_stalled, total_memory_ops>>
       ELSE LET w == Head(ready_queue[c])
                st == executeWarp([Counters(c, w) EXCEPT !.cycles = @ + 1], InstrPerBatch)
                ready == [warps EXCEPT ![w] = WarpAfter(st, "READY")]
                done == [warps EXCEPT ![w] = WarpAfter(st, "COMPLETED")]
            IN /\ cycles_executed' = [cycles_executed EXCEPT ![c] = st.cycles]
               /\ instructions_executed' = [instructions_executed EXCEPT ![c] = st.cu_instr]
               /\ warps_executed' = [warps_executed EXCEPT ![c] = st.cu_warps]
               /\ cycles_stalled' = [cycles_stalled EXCEPT ![c] = st.cu_stalled]
               /\ total_memory_ops' = st.memory_ops
               /\ UNCHANGED idle_cycles
               /\ IF st.instr >= WarpDoneInstr
                  THEN /\ warps' = done
                       /\ blk_completed' = blk_completed \cup Swept(c, done)
                       /\ ready_queue' = [ready_queue EXCEPT ![c] = Tail(@)]
                       /\ call' = <<"simulateCycle", c, w, st.states \o <<"COMPLETED">>>>
                  ELSE /\ warps' = ready
                       /\ ready_queue' = [ready_queue EXCEPT ![c] = addWarp(Tail(@), w)]
                       /\ call' = <<"simulateCycle", c, w, st.states>>
                       /\ UNCHANGED blk_completed
    /\ UNCHANGED <<unitRest, thread_blocks, assigned, active_blocks, cu_state, test_queue>>

\* cu->removeCompletedBlocks() called by the test
TestRemoveCompletedBlocks(c) ==
    /\ active_blocks' = [active_blocks EXCEPT ![c] = RemoveCompleted(@)]
    /\ cu_state' = [cu_state EXCEPT ![c] =
                       IF RemoveCompleted(active_blocks[c]) = <<>> THEN "IDLE" ELSE @]
    /\ call' = <<"removeCompletedBlocks", c>>
    /\ UNCHANGED <<unitRest, thread_blocks, warps, blk_completed, assigned, ready_queue,
                   cuCounters, test_queue>>

\* the test drives one compute unit, the first; the others stay as constructed
CuNext ==
    \/ TestAssignBlock(1)
    \/ TestSimulateCycle(1)
    \/ TestRemoveCompletedBlocks(1)

CuSpec == CuInit /\ [][CuNext]_vars

(***************************************************************************)
(* A warp scheduler of its own, driven directly by a test with the warps   *)
(* of a kernel's blocks, whose states the test sets.                       *)
(***************************************************************************)
\* WarpScheduler(max_warps) and a kernel of one block, of one warp or of two
QueueInit == \E threads \in ThreadChoices : DriverInit(1, threads)

\* ok = scheduler.addWarp(w), w a warp of the kernel or nullptr
TestAddWarp(w) ==
    /\ test_queue' = addWarp(test_queue, w)
    /\ call' = <<"addWarp", w, addWarpReturn(test_queue, w)>>
    /\ UNCHANGED <<unitRest, thread_blocks, warps, blk_completed, assigned, active_blocks,
                   ready_queue, cu_state, cuCounters>>

\* w = scheduler.getNextWarp(): nullptr on an empty queue
TestGetNextWarp ==
    /\ IF test_queue = <<>>
       THEN /\ call' = <<"getNextWarp", NoWarp>>
            /\ UNCHANGED test_queue
       ELSE /\ call' = <<"getNextWarp", Head(test_queue)>>
            /\ test_queue' = Tail(test_queue)
    /\ UNCHANGED <<unitRest, thread_blocks, warps, blk_completed, assigned, active_blocks,
                   ready_queue, cu_state, cuCounters>>

\* w->setState(state)
TestSetState(w, state) ==
    /\ warps' = [warps EXCEPT ![w].state = state]
    /\ call' = <<"setState", w, state>>
    /\ UNCHANGED <<unitRest, thread_blocks, blk_completed, assigned, active_blocks,
                   ready_queue, cu_state, cuCounters, test_queue>>

QueueNext ==
    \/ \E w \in (DOMAIN warps) \cup {NoWarp} : TestAddWarp(w)
    \/ TestGetNextWarp
    \/ \E w \in DOMAIN warps, state \in ExecutionStates : TestSetState(w, state)

QueueSpec == QueueInit /\ [][QueueNext]_vars

(***************************************************************************)
(* The global memory driven directly by a test (memory.cpp).               *)
(***************************************************************************)
\* the values of a MemoryAddress or a size_t
Words == 0..(2^WordBits - 1)

\* unsigned addition at the width of the operands
WordAdd(a, b) == (a + b) % (2^WordBits)

\* if (address + bytes > size_) return false
InBounds(address, bytes) == ~(WordAdd(address, bytes) > MemSize)

memRest ==
    <<schedVars, histVars, wlVars, cuVars, dev_running, dispVars, mPc, inWait, analyzerVars,
      test_queue, lockVars>>

\* GlobalMemory::read(address, bytes)
MemRead(address, bytes) ==
    /\ global_memory.access_count < MaxAccesses
    /\ IF ~InBounds(address, bytes)
       THEN /\ call' = <<"read", address, bytes, FALSE>>
            /\ UNCHANGED global_memory
       ELSE /\ global_memory' =
                 [global_memory EXCEPT !.access_count = @ + 1, !.read_count = @ + 1,
                                       !.bytes_read = @ + bytes]
            /\ call' = <<"read", address, bytes, TRUE>>
    /\ UNCHANGED memRest

\* GlobalMemory::write(address, bytes)
MemWrite(address, bytes) ==
    /\ global_memory.access_count < MaxAccesses
    /\ IF ~InBounds(address, bytes)
       THEN /\ call' = <<"write", address, bytes, FALSE>>
            /\ UNCHANGED global_memory
       ELSE /\ global_memory' =
                 [global_memory EXCEPT !.access_count = @ + 1, !.write_count = @ + 1,
                                       !.bytes_written = @ + bytes]
            /\ call' = <<"write", address, bytes, TRUE>>
    /\ UNCHANGED memRest

MemNext ==
    \/ \E address \in Words, bytes \in Words : MemRead(address, bytes)
    \/ \E address \in Words, bytes \in Words : MemWrite(address, bytes)

\* a device as constructed; the test uses its global memory alone
MemSpec == DevInit /\ [][MemNext]_vars

\* a caller that may also call stop() itself, at any point after start()
CallerAny == CallerLive \/ CallStop

\* the device of DevSpec under fair scheduling of its caller and its threads
StopSpec ==
    /\ DevInit
    /\ [][DevNext]_vars
    /\ WF_vars(CallerAny)
    /\ WF_vars(DispatcherNext)
    /\ \A c \in CUs : WF_vars(CUNext(c))

(***************************************************************************)
(* Claims about the scheduler, checked under SchedSpec.                    *)
(***************************************************************************)
InBucket(b, k) == k \in Range(b)

RECURSIVE Occurrences(_, _)
Occurrences(b, k) ==
    IF b = <<>> THEN 0 ELSE (IF Head(b) = k THEN 1 ELSE 0) + Occurrences(Tail(b), k)

\* the seed run: exactly A, B, C, D were submitted before the first
\* getNextWorkload and all four have been handed out by getNextWorkload
SeedRun ==
    /\ Len(dispatched) = 4
    /\ first_at = 4
    /\ Range(dispatched) = {1, 2, 3, 4}

\* the step is a getNextWorkload call that returned a kernel
Dispatches == Len(dispatched') = Len(dispatched) + 1

Returned == dispatched'[Len(dispatched')]

\* C1: after any sequence of addWorkload, getNextWorkload, markWorkloadRunning
\* and markWorkloadCompleted calls, under each policy, the three buckets
\* together hold as many kernels as addWorkload was called.
C1_BucketCount == Len(pending) + Len(running) + Len(completed) = submitted

C1_Witness ==
    /\ submitted >= 3
    /\ pending # <<>> /\ running # <<>> /\ completed # <<>>

\* C2: under FIFO every getNextWorkload returns the current pending[0], the
\* kernels come out in the order they were added, and A, B, C, D come out
\* as A, B, C, D.
C2_FifoOrder ==
    /\ [](policy = "FIFO" =>
            /\ \A i, j \in 1..Len(dispatched) :
                 i < j => dispatched[i] < dispatched[j]
            /\ (Len(dispatched) = 4 /\ Range(dispatched) = {1, 2, 3, 4})
                 => dispatched = <<1, 2, 3, 4>>)
    /\ [][(policy = "FIFO" /\ Dispatches) => Returned = pending[1]]_vars

C2_Witness ==
    /\ policy = "FIFO"
    /\ dispatched = <<1, 2, 3, 4>>
    /\ first_at = 4

\* C3: under Priority every getNextWorkload returns a pending kernel of
\* maximum priority, the earliest submitted among those of maximum priority,
\* and the seed run comes out as B, D, C, A.
C3_PriorityOrder ==
    /\ [](policy = "PRIORITY" /\ profile = 1 /\ SeedRun
            => dispatched = <<2, 4, 3, 1>>)
    /\ [][(policy = "PRIORITY" /\ Dispatches) =>
            /\ InBucket(pending, Returned)
            /\ \A j \in Range(pending) :
                 /\ getPriority(j) <= getPriority(Returned)
                 /\ getPriority(j) = getPriority(Returned)
                      => /\ Returned <= j
                         /\ Find(pending, Returned) <= Find(pending, j)]_vars

C3_Witness ==
    /\ policy = "PRIORITY" /\ profile = 1 /\ SeedRun
    /\ dispatched = <<2, 4, 3, 1>>

\* C4: under Shortest-Job-First every getNextWorkload returns a pending
\* kernel of minimum estimated_instructions, the earliest submitted among
\* those of minimum estimate, and the seed run comes out as C, B, D, A.
C4_SjfOrder ==
    /\ [](policy = "SJF" /\ profile = 1 /\ SeedRun
            => dispatched = <<3, 2, 4, 1>>)
    /\ [][(policy = "SJF" /\ Dispatches) =>
            /\ InBucket(pending, Returned)
            /\ \A j \in Range(pending) :
                 /\ getEstimatedInstructions(Returned) <= getEstimatedInstructions(j)
                 /\ getEstimatedInstructions(j) = getEstimatedInstructions(Returned)
                      => /\ Returned <= j
                         /\ Find(pending, Returned) <= Find(pending, j)]_vars

C4_Witness ==
    /\ policy = "SJF" /\ profile = 1 /\ SeedRun
    /\ dispatched = <<3, 2, 4, 1>>

\* C5 as claimed: under Round-robin, A, B, C, D submitted before any dispatch
\* come out as A, C, D, B.
C5_RoundRobinTable ==
    (policy = "ROUND_ROBIN" /\ SeedRun) => dispatched = <<1, 3, 4, 2>>

\* C5 as amended: under Round-robin the cursor stays 0, every call takes
\* pending index 0, and A, B, C, D submitted before any dispatch come out as
\* A, B, C, D.
C5_RoundRobinIsFront ==
    policy = "ROUND_ROBIN" =>
        /\ current_index = 0
        /\ SeedRun => dispatched = <<1, 2, 3, 4>>

C5_Witness ==
    /\ policy = "ROUND_ROBIN" /\ SeedRun
    /\ dispatched = <<1, 2, 3, 4>>

\* C6: every kernel submitted (once) is in exactly one bucket and there once, no
\* operation puts a kernel that has left pending back into pending, and no
\* operation takes a kernel out of completed.
C6_ForwardOnly ==
    /\ [](\A k \in Kernels :
            Occurrences(pending, k) + Occurrences(running, k) + Occurrences(completed, k)
              = (IF k <= submitted THEN 1 ELSE 0))
    /\ [][\A k \in Kernels :
            /\ (InBucket(running, k) \/ InBucket(completed, k)) => ~InBucket(pending', k)
            /\ InBucket(completed, k) => InBucket(completed', k)
            /\ InBucket(running', k) => (InBucket(running, k) \/ InBucket(pending, k))
            /\ InBucket(completed', k) => (InBucket(completed, k) \/ InBucket(running, k))]_vars

C6_Witness ==
    /\ pending # <<>>
    /\ \E k \in Range(dispatched) : InBucket(completed, k)
    /\ \E k \in Range(running) : ~InBucket(dispatched, k)

(***************************************************************************)
(* Claims about the device, checked under DevSpec and LiveSpec.            *)
(***************************************************************************)
\* C7: on every CU, in every reachable state, there are at most
\* max_blocks_per_cu active blocks and their warp counts sum to at most
\* max_warps_per_cu.
C7_CapacityRespected ==
    \A c \in CUs :
        /\ Len(active_blocks[c]) <= MaxBlocksPerCU
        /\ getActiveWarpCount(c) <= MaxWarpsPerCU

\* the dispatcher holds a block that no CU admits
C7_Witness ==
    /\ dPc = "offer"
    /\ dBlock # NoBlock
    /\ Accepting(dBlock) = {}
    /\ \E c \in CUs : getActiveWarpCount(c) + getNumWarps(dBlock) > MaxWarpsPerCU

\* C8: a kernel in the completed bucket, or with its completed flag set, has
\* had every block assigned to a CU and has every warp in state COMPLETED.
C8_CompletedMeansExecuted ==
    \A k \in Kernels :
        (InBucket(completed, k) \/ wl_completed[k]) =>
            /\ BlocksOf(k) \subseteq assigned
            /\ \A blk \in BlocksOf(k) : \A w \in WarpsOf(blk) : warps[w].state = "COMPLETED"

\* C9: started with the kernels already submitted, no further submission and
\* no other caller of stop(), under fair scheduling every kernel reaches the
\* completed bucket and waitForCompletion returns.
C9_EventuallyReturns ==
    <>(/\ mPc = "returned"
       /\ inWait
       /\ \A k \in 1..submitted : InBucket(completed, k))

\* C10: when waitForCompletion returns, pending and running are empty and
\* every submitted kernel is in completed.
C10_DrainedAtReturn ==
    (mPc = "returned" /\ inWait) =>
        /\ pending = <<>>
        /\ running = <<>>
        /\ \A k \in 1..submitted : InBucket(completed, k)

\* waitForCompletion has returned after two kernels went through the buckets
C10_Witness ==
    /\ mPc = "returned" /\ inWait
    /\ submitted >= 2
    /\ Len(completed) = submitted
    /\ \A k \in 1..submitted : BlocksOf(k) \subseteq assigned

\* C11: under fair scheduling, every stop() called on the running device, at
\* whatever point after start(), returns, and when it has returned the
\* dispatcher and every CU driver have left their loops and been joined.
C11_StopReturns ==
    (mPc = "stop" /\ dev_running)
        ~> (mPc = "returned" /\ dPc = "none" /\ \A c \in CUs : cuPc[c] = "none")


\* C12: a kernel has a metrics record only once its completed flag is set and
\* it is in the completed bucket; the device metrics are recorded only by a
\* step that finds the dispatcher exited; and when waitForCompletion has
\* returned the records are those of the submitted kernels, one each, in the
\* order of the completed bucket, and total_workloads_executed is their number.
C12_MetricsAfterCompletion ==
    /\ [](\A i \in 1..Len(workload_metrics) :
            /\ wl_completed[workload_metrics[i]]
            /\ InBucket(completed, workload_metrics[i]))
    /\ [][(simulation_active /\ ~simulation_active') =>
            /\ dPc = "exited"
            /\ total_workloads_executed' = Len(workload_metrics)]_vars
    /\ []((mPc = "returned" /\ inWait) =>
            /\ workload_metrics = completed
            /\ Len(workload_metrics) = submitted
            /\ \A k \in 1..submitted : Occurrences(workload_metrics, k) = 1
            /\ total_workloads_executed = submitted)

\* waitForCompletion has returned with the records of two kernels
C12_Witness ==
    /\ mPc = "returned" /\ inWait
    /\ ~simulation_active
    /\ workload_metrics = <<1, 2>>
    /\ total_workloads_executed = 2

\* the step pulls a block of the dispatcher's kernel
Pulls == dPc = "drain" /\ dPc' = "offer"

\* C13: the blocks left in a kernel are always 0..n-1 in increasing order;
\* the dispatcher's pull takes the last of them (so total_blocks-1 first, then
\* down to 0) and finds none exactly when none is left; and a block is handed
\* to a CU only when every block of its kernel handed before has a larger id.
C13_LifoBlocks ==
    /\ [](\A k \in Kernels : thread_blocks[k] = GeneratedBlocks(Len(thread_blocks[k])))
    /\ [][dPc = "drain" /\ dPc' # dPc =>
            /\ hasMoreBlocks(dWl) <=> Len(thread_blocks[dWl]) > 0
            /\ hasMoreBlocks(dWl) <=> Pulls
            /\ Pulls =>
                 /\ dBlock' = <<dWl, Len(thread_blocks[dWl]) - 1>>
                 /\ thread_blocks'[dWl] = GeneratedBlocks(Len(thread_blocks[dWl]) - 1)
            /\ ~Pulls => (dBlock' = NoBlock /\ UNCHANGED thread_blocks)]_vars
    /\ [][\A blk \in assigned' \ assigned :
            \A old \in assigned : old[1] = blk[1] => old[2] > blk[2]]_vars

\* the three blocks of one kernel have all been handed to CUs
C13_Witness ==
    \E k \in Kernels :
        /\ getTotalBlocks(k) = 3
        /\ BlocksOf(k) \subseteq assigned
        /\ thread_blocks[k] = <<>>

\* C15: a submitted kernel whose configuration gives no block is in none of
\* the three buckets and has no metrics record.
C15_ZeroBlocksIgnored ==
    \A k \in 1..submitted :
        getTotalBlocks(k) = 0 =>
            /\ ~InBucket(pending, k)
            /\ ~InBucket(running, k)
            /\ ~InBucket(completed, k)
            /\ ~InBucket(workload_metrics, k)


(***************************************************************************)
(* Claims about a workload's blocks, checked under WlSpec.                 *)
(***************************************************************************)
RECURSIVE SumThreads(_, _)
SumThreads(threads, n) ==
    IF n = 0 THEN 0 ELSE ThreadsInWarp(threads, n - 1) + SumThreads(threads, n - 1)

\* n is the least number of warps of WARP_SIZE threads that hold threads
IsCeilWarps(n, threads) ==
    /\ n * WARP_SIZE >= threads
    /\ n > 0 => (n - 1) * WARP_SIZE < threads

\* C14: whenever generateThreadBlocks has just returned, whatever was pulled
\* or generated before, the kernel holds gx*gy*gz blocks with the ids 0, 1, ...
\* in this order, every warp of every block exists, a block has
\* ceil(threads_per_block / 32) warps, all of 32 threads except possibly
\* the last, and their thread counts add up to threads_per_block.
C14_GenerateIdempotent ==
    \A k \in Kernels :
        (call[1] = "generateThreadBlocks" /\ call[2] = k) =>
            /\ Len(thread_blocks[k]) = cfg[k].gx * cfg[k].gy * cfg[k].gz
            /\ \A i \in 1..Len(thread_blocks[k]) : thread_blocks[k][i] = i - 1
            /\ \A i \in 1..Len(thread_blocks[k]) :
                 LET blk == <<k, thread_blocks[k][i]>>
                     n == getNumWarps(blk)
                     threads == cfg[k].threads
                 IN /\ IsCeilWarps(n, threads)
                    /\ SumThreads(threads, n) = threads
                    /\ \A w \in 0..(n - 1) :
                         /\ <<k, blk[2], w>> \in DOMAIN warps
                         /\ ThreadsInWarp(threads, w) >= 1
                         /\ ThreadsInWarp(threads, w) <= WARP_SIZE
                         /\ w < n - 1 => ThreadsInWarp(threads, w) = WARP_SIZE

\* generateThreadBlocks called again after some blocks were pulled, on a
\* kernel of several blocks whose last warp is partial
C14_Witness ==
    /\ call = <<"generateThreadBlocks", 1, 3>>
    /\ cfg[1].threads = 65
    /\ Len(thread_blocks[1]) = 8
    /\ cfg[1].gx = 2 /\ cfg[1].gy = 2 /\ cfg[1].gz = 2


(***************************************************************************)
(* Claims about the blocks of the device, checked under DevSpec.           *)
(***************************************************************************)
RECURSIVE HeldByCUs(_, _)
HeldByCUs(blk, c) ==
    IF c = 0 THEN 0 ELSE Occurrences(active_blocks[c], blk) + HeldByCUs(blk, c - 1)

\* in how many places block blk is: its kernel's remaining blocks, the
\* dispatcher's hands, the active blocks of the CUs
Places(blk) ==
    Occurrences(thread_blocks[blk[1]], blk[2]) + (IF dBlock = blk THEN 1 ELSE 0)
        + HeldByCUs(blk, NumCUs)

C17_MemoryBounds ==
    [][call'[1] \in {"read", "write"} =>
         LET address == call'[2]
             bytes == call'[3]
             ok == call'[4]
             rd == call'[1] = "read"
         IN /\ ok <=> (address + bytes <= MemSize)
            /\ ~ok => global_memory' = global_memory
            /\ ok => global_memory' =
                  [access_count |-> global_memory.access_count + 1,
                   read_count |-> global_memory.read_count + (IF rd THEN 1 ELSE 0),
                   write_count |-> global_memory.write_count + (IF rd THEN 0 ELSE 1),
                   bytes_read |-> global_memory.bytes_read + (IF rd THEN bytes ELSE 0),
                   bytes_written |-> global_memory.bytes_written + (IF rd THEN 0 ELSE bytes)]
    ]_vars


(***************************************************************************)
(* Claims about the utilization figures, checked under DevSpec.            *)
(***************************************************************************)
RECURSIVE SumCycles(_)
SumCycles(c) == IF c = 0 THEN 0 ELSE cycles_executed[c] + SumCycles(c - 1)

RECURSIVE SumIdle(_)
SumIdle(c) == IF c = 0 THEN 0 ELSE idle_cycles[c] + SumIdle(c - 1)

\* (sum of cycles_executed - idle_cycles) / (sum of cycles_executed) * 100, 0 for 0 / 0
AggregateUtilization ==
    IF SumCycles(NumCUs) = 0 THEN 0
    ELSE ((SumCycles(NumCUs) - SumIdle(NumCUs)) * 100 * PerCent) \div SumCycles(NumCUs)

\* the two figures are within one percentage point (and the roundings) of each other
WithinOnePoint ==
    /\ AggregateUtilization - getAverageUtilization <= PerCent + NumCUs
    /\ getAverageUtilization - AggregateUtilization <= PerCent + NumCUs

\* no CU driver is inside simulateCycle
Quiescent == \A c \in CUs : cuPc[c] # "cycle"

\* C18 as claimed: at every quiescent point, however the work was spread over
\* the CUs, the aggregate utilization and the mean of the CUs' utilizations
\* are within one percentage point.
C18_AggregateIsMean == Quiescent => WithinOnePoint

\* C18 as amended: at every quiescent point at which all the CUs have
\* executed the same number of cycles, the two figures are within one
\* percentage point.
C18_AggregateIsMeanEqualCycles ==
    (Quiescent /\ \A c, d \in CUs : cycles_executed[c] = cycles_executed[d])
        => WithinOnePoint

\* both CUs have executed the cycles of a block of two warps
C18_Witness ==
    /\ Quiescent
    /\ \A c \in CUs : cycles_executed[c] = cycles_executed[1]
    /\ cycles_executed[1] >= 4 * (1 + StallCycles)


(***************************************************************************)
(* Claims about a compute unit's admission, checked under CuSpec.          *)
(***************************************************************************)
\* C19: for every canAcceptBlock / assignBlock pair a test makes on a CU:
\* canAcceptBlock answers true iff the CU holds fewer than max_blocks_per_cu
\* blocks and the warps of its blocks plus those of the new block are at most
\* max_warps_per_cu; assignBlock returns the same answer; when that is false
\* the active blocks, the ready queue and the state of the CU are unchanged;
\* when it is true the block is appended to the active blocks, all its
\* warps are in the ready queue, behind what was there, and the CU is RUNNING.
C19_AdmissionAtomic ==
    [][call'[1] = "assignBlock" /\ thread_blocks' # thread_blocks =>
         LET c == call'[2]
             blk == call'[3]
             can == call'[4]
             ok == call'[5]
         IN /\ can <=> /\ Len(active_blocks[c]) < MaxBlocksPerCU
                        /\ SumWarps(active_blocks[c]) + NumWarps(cfg[blk[1]].threads)
                             <= MaxWarpsPerCU
            /\ ok <=> can
            /\ ~ok => UNCHANGED <<active_blocks, ready_queue, cu_state>>
            /\ ok => /\ active_blocks'[c] = Append(active_blocks[c], blk)
                      /\ \A w \in WarpsOf(blk) : w \in Range(ready_queue'[c])
                      /\ Len(ready_queue'[c]) = Len(ready_queue[c]) + Cardinality(WarpsOf(blk))
                      /\ SubSeq(ready_queue'[c], 1, Len(ready_queue[c])) = ready_queue[c]
                      /\ cu_state'[c] = "RUNNING"
                      /\ \A d \in CUs \ {c} :
                           /\ active_blocks'[d] = active_blocks[d]
                           /\ ready_queue'[d] = ready_queue[d]
    ]_vars

\* a CU that holds a block has refused another
C19_Witness ==
    /\ call[1] = "assignBlock"
    /\ ~call[5]
    /\ active_blocks[call[2]] # <<>>
    /\ ready_queue[call[2]] # <<>>


(***************************************************************************)
(* Claims about the warp scheduler, checked under QueueSpec.               *)
(***************************************************************************)
\* C20: the ready queue never holds more than max_warps entries; addWarp
\* returns false exactly when the queue holds max_warps entries or the warp is
\* null or not READY, and then leaves the queue as it is, and otherwise
\* appends the warp at the tail; getNextWarp on an empty queue returns null
\* and leaves it empty, and otherwise returns the head and removes it.
C20_QueueFifoBounded ==
    /\ [](Len(test_queue) <= QueueMaxWarps)
    /\ [][call'[1] = "addWarp" =>
            LET w == call'[2]
                ok == call'[3]
            IN /\ ~ok <=> \/ Len(test_queue) = QueueMaxWarps
                           \/ w = NoWarp
                           \/ warps[w].state # "READY"
               /\ ~ok => test_queue' = test_queue
               /\ ok => test_queue' = test_queue \o <<w>>]_vars
    /\ [][call'[1] = "getNextWarp" =>
            IF Len(test_queue) = 0
            THEN call'[2] = NoWarp /\ test_queue' = <<>>
            ELSE /\ call'[2] = test_queue[1]
                 /\ test_queue' = [i \in 1..(Len(test_queue) - 1) |-> test_queue[i + 1]]]_vars

\* a READY warp has been refused by a full queue whose head is another warp
\* than its tail
C20_Witness ==
    /\ call[1] = "addWarp"
    /\ ~call[3]
    /\ call[2] # NoWarp
    /\ warps[call[2]].state = "READY"
    /\ Len(test_queue) = QueueMaxWarps
    /\ test_queue[1] # test_queue[QueueMaxWarps]


(***************************************************************************)
(* C21: warps are neither lost nor duplicated.                             *)
(***************************************************************************)
\* the CU's queue holds w once, no driver has fetched it, and it is not completed
Queued(c, w) ==
    /\ Occurrences(ready_queue[c], w) = 1
    /\ cuWarp[c] # w
    /\ warps[w].state # "COMPLETED"

\* the CU's driver has fetched w and is executing it; it is not in the queue
Executing(c, w) ==
    /\ Occurrences(ready_queue[c], w) = 0
    /\ cuWarp[c] = w
    /\ warps[w].state # "COMPLETED"

\* w is COMPLETED, not in the queue and not with the driver
Retired(c, w) ==
    /\ Occurrences(ready_queue[c], w) = 0
    /\ cuWarp[c] # w
    /\ warps[w].state = "COMPLETED"

\* the queue after assignBlock's loop has offered warps 0..n-1 of the block
RECURSIVE AddWarpsUpTo(_, _, _)
AddWarpsUpTo(q, blk, n) ==
    IF n = 0 THEN q
    ELSE addWarp(AddWarpsUpTo(q, blk, n - 1), <<blk[1], blk[2], n - 1>>)

\* C21: every warp of every active block of a CU is either once in that CU's
\* ready queue, or with that CU's driver and not in the queue, or COMPLETED
\* and not in the queue, and no other CU has it; the addWarp calls of
\* assignBlock and of simulateCycle's re-queue step all return true: each of
\* them makes the queue one longer, with the warp at its tail.
C21_WarpAccounted ==
    /\ [](\A c \in CUs : \A i \in 1..Len(active_blocks[c]) :
            \A w \in WarpsOf(active_blocks[c][i]) :
                /\ Queued(c, w) \/ Executing(c, w) \/ Retired(c, w)
                /\ \A d \in CUs \ {c} :
                     Occurrences(ready_queue[d], w) = 0 /\ cuWarp[d] # w)
    /\ [][\A c \in CUs :
            /\ Len(active_blocks'[c]) > Len(active_blocks[c]) =>
                 /\ \A w \in 0..(getNumWarps(dBlock) - 1) :
                      addWarpReturn(AddWarpsUpTo(ready_queue[c], dBlock, w),
                                    <<dBlock[1], dBlock[2], w>>)
                 /\ Len(ready_queue'[c]) = Len(ready_queue[c]) + getNumWarps(dBlock)
            /\ (cuPc[c] = "cycle" /\ cuPc'[c] = "loop"
                    /\ warps'[cuWarp[c]].state # "COMPLETED") =>
                 /\ addWarpReturn(ready_queue[c], cuWarp[c])
                 /\ ready_queue'[c] = Append(ready_queue[c], cuWarp[c])
      ]_vars

\* on one CU a block of two warps, one COMPLETED and the other with the driver
\* for its second batch, after it went back through the queue
C21_Witness ==
    \E c \in CUs : \E i \in 1..Len(active_blocks[c]) :
        \E w, v \in WarpsOf(active_blocks[c][i]) :
            /\ Retired(c, w)
            /\ Executing(c, v)
            /\ warps[v].instr = InstrPerBatch


(***************************************************************************)
(* C22: what one batch of simulateCycle adds up to.                        *)
(***************************************************************************)
\* C22: a simulateCycle that obtains a warp adds 8 to the warp's
\* instructions_executed_ and program counter and to the CU's
\* instructions_executed_, 2 to the memory controller's total_memory_ops_, 1 to
\* the stall counters of the warp and of the CU, and 1 + getLatency() / 10 = 41
\* to the CU's cycles_executed_; executeWarp sets the warp RUNNING,
\* MEMORY_STALLED, RUNNING and leaves it READY.
C22_BatchEffect ==
    [][(call'[1] = "simulateCycle" /\ call'[3] # NoWarp
            /\ cycles_executed' # cycles_executed) =>
         LET c == call'[2]
             w == call'[3]
         IN /\ w = Head(ready_queue[c])
            /\ warps'[w].instr = warps[w].instr + 8
            /\ warps'[w].pc = warps[w].pc + 8
            /\ instructions_executed'[c] = instructions_executed[c] + 8
            /\ total_memory_ops' = total_memory_ops + 2
            /\ warps'[w].stalled = warps[w].stalled + 1
            /\ cycles_stalled'[c] = cycles_stalled[c] + 1
            /\ cycles_executed'[c] = cycles_executed[c] + 1 + (GlobalLatency \div 10)
            /\ cycles_executed'[c] = cycles_executed[c] + 41
            /\ SubSeq(call'[4], 1, 4) = <<"RUNNING", "MEMORY_STALLED", "RUNNING", "READY">>
            /\ idle_cycles' = idle_cycles
    ]_vars

\* the second batch of a warp on CU 1 has been executed
C22_Witness ==
    /\ call[1] = "simulateCycle"
    /\ call[3] # NoWarp
    /\ warps[call[3]].instr = 16
    /\ warps[call[3]].pc = 16
    /\ warps[call[3]].stalled = 2
    /\ cycles_executed[1] >= 82


(***************************************************************************)
(* C23: the life of a warp, batch by batch.                                *)
(***************************************************************************)
\* batches of InstrPerBatch instructions until the count reaches WarpDoneInstr
\* (125 batches of 8 for the 1000 of the source)
BatchesToComplete == (WarpDoneInstr + InstrPerBatch - 1) \div InstrPerBatch

\* C23: a warp is COMPLETED exactly when its instruction count has reached the
\* threshold, which happens at the end of batch number BatchesToComplete; after
\* every earlier batch it is READY again at the tail of the ready queue; a
\* COMPLETED warp is in no queue and is never executed again, so its count stays
\* at BatchesToComplete batches (1000 in the source), and its program counter
\* always equals its instruction count.
C23_WarpLife ==
    /\ [](\A w \in DOMAIN warps :
            /\ warps[w].state = "COMPLETED" <=> warps[w].instr >= WarpDoneInstr
            /\ warps[w].state = "COMPLETED" =>
                 /\ warps[w].instr = BatchesToComplete * InstrPerBatch
                 /\ \A c \in CUs : w \notin Range(ready_queue[c])
            /\ warps[w].instr <= BatchesToComplete * InstrPerBatch
            /\ warps[w].instr = warps[w].stalled * InstrPerBatch
            /\ warps[w].pc = warps[w].instr)
    /\ [][/\ \A w \in DOMAIN warps : warps[w].state = "COMPLETED" => warps'[w] = warps[w]
          /\ (call'[1] = "simulateCycle" /\ call'[3] # NoWarp
                  /\ cycles_executed' # cycles_executed) =>
               LET c == call'[2]
                   w == call'[3]
               IN IF warps'[w].instr >= WarpDoneInstr
                  THEN /\ warps'[w].state = "COMPLETED"
                       /\ warps'[w].stalled = BatchesToComplete
                       /\ ready_queue'[c] = Tail(ready_queue[c])
                  ELSE /\ warps'[w].state = "READY"
                       /\ warps'[w].stalled < BatchesToComplete
                       /\ ready_queue'[c] = Append(Tail(ready_queue[c]), w)
      ]_vars

\* CU 1 has completed one warp and has re-queued another behind a third
C23_Witness ==
    /\ \E w \in DOMAIN warps :
          warps[w].state = "COMPLETED" /\ warps[w].stalled = BatchesToComplete
    /\ Len(ready_queue[1]) >= 2
    /\ warps[ready_queue[1][Len(ready_queue[1])]].instr = InstrPerBatch
    /\ warps[ready_queue[1][1]].instr = 0


(***************************************************************************)
(* C24: a block's completed flag.                                          *)
(***************************************************************************)
\* the blocks that exist: those left in their kernels, the one in the
\* dispatcher's hands, the active blocks of the CUs
LiveBlocks ==
    UNION {{<<k, thread_blocks[k][i]>> : i \in 1..Len(thread_blocks[k])} : k \in Kernels}
        \cup ({dBlock} \ {NoBlock})
        \cup UNION {Range(active_blocks[c]) : c \in CUs}

\* C24: the completed flag of every block is set exactly when all the warps
\* of the block are COMPLETED, and a flag that is set stays set.
C24_CompletedIffAllWarps ==
    /\ [](\A blk \in LiveBlocks : blk \in blk_completed <=> AllWarpsDone(warps, blk))
    /\ [][blk_completed \subseteq blk_completed']_vars

\* the same of the blocks that have a warp
C24_WithWarpsOnly ==
    /\ [](\A blk \in LiveBlocks :
            getNumWarps(blk) > 0 => (blk \in blk_completed <=> AllWarpsDone(warps, blk)))
    /\ [][blk_completed \subseteq blk_completed']_vars


(***************************************************************************)
(* One compute unit with its two mutexes made explicit.  A test runs two   *)
(* threads on CU 1: one calls assignBlock with the blocks of kernel 1 and  *)
(* removeCompletedBlocks, the other calls simulateCycle.  Every step is    *)
(* one lock acquisition, or the work done up to the next release.          *)
(***************************************************************************)
\* what no step of these two threads changes
lockRest ==
    <<schedVars, histVars, cfg, wl_completed, cu_running, dev_running, dWl,
      workload_metrics, mPc, inWait, analyzerVars, global_memory, test_queue,
      scheduler_mutex, device_mutex>>

Lock(mutex, c, thread) == [mutex EXCEPT ![c] = thread]

Unlock(mutex, c) == [mutex EXCEPT ![c] = "free"]

\* the caller's getNextBlock, then assignBlock: lock_guard lock(cu_mutex_)
AssignBlockLock(c) ==
    /\ dPc = "none"
    /\ hasMoreBlocks(1)
    /\ cu_mutex[c] = "free"
    /\ dBlock' = LastBlock(1)
    /\ thread_blocks' = [thread_blocks EXCEPT ![1] = PopBack(@)]
    /\ cu_mutex' = Lock(cu_mutex, c, "caller")
    /\ dPc' = "test"
    /\ UNCHANGED <<lockRest, warps, blk_completed, assigned, active_blocks, ready_queue,
                   cu_state, cuPc, cuWarp, cuCounters, call, queue_mutex>>

\* if (!canAcceptBlock(block.get())) return false, which releases the lock and
\* destroys the block; else on to the loop over the block's warps
AssignBlockTest(c) ==
    /\ dPc = "test"
    /\ IF canAcceptBlock(c, dBlock)
       THEN /\ dPc' = "warps"
            /\ call' = <<"assignBlock", 0>>
            /\ UNCHANGED <<dBlock, cu_mutex>>
       ELSE /\ dPc' = "none"
            /\ dBlock' = NoBlock
            /\ cu_mutex' = Unlock(cu_mutex, c)
            /\ UNCHANGED call
    /\ UNCHANGED <<lockRest, thread_blocks, warps, blk_completed, assigned, active_blocks,
                   ready_queue, cu_state, cuPc, cuWarp, cuCounters, queue_mutex>>

\* warp_scheduler_.addWarp(warp.get()) for the next warp of the block:
\* lock_guard lock(queue_mutex_), inside assignBlock's critical section
AddWarpLock(c) ==
    /\ dPc = "warps"
    /\ call[2] < getNumWarps(dBlock)
    /\ queue_mutex[c] = "free"
    /\ queue_mutex' = Lock(queue_mutex, c, "caller")
    /\ dPc' = "push"
    /\ UNCHANGED <<lockRest, thread_blocks, warps, blk_completed, assigned, active_blocks,
                   ready_queue, cu_state, cuPc, cuWarp, cuCounters, dBlock, call, cu_mutex>>

\* the body of that addWarp, and its return
AddWarpPush(c) ==
    /\ dPc = "push"
    /\ ready_queue' = [ready_queue EXCEPT ![c] = addWarp(@, <<dBlock[1], dBlock[2], call[2]>>)]
    /\ queue_mutex' = Unlock(queue_mutex, c)
    /\ call' = <<"assignBlock", call[2] + 1>>
    /\ dPc' = "warps"
    /\ UNCHANGED <<lockRest, thread_blocks, warps, blk_completed, assigned, active_blocks,
                   cu_state, cuPc, cuWarp, cuCounters, dBlock, cu_mutex>>

\* after the loop: active_blocks_.push_back, state_ = RUNNING, return true
AssignBlockKeep(c) ==
    /\ dPc = "warps"
    /\ ~(call[2] < getNumWarps(dBlock))
    /\ active_blocks' = [active_blocks EXCEPT ![c] = Append(@, dBlock)]
    /\ cu_state' = [cu_state EXCEPT ![c] = "RUNNING"]
    /\ assigned' = assigned \cup {dBlock}
    /\ cu_mutex' = Unlock(cu_mutex, c)
    /\ dBlock' = NoBlock
    /\ call' = NoCall
    /\ dPc' = "none"
    /\ UNCHANGED <<lockRest, thread_blocks, warps, blk_completed, ready_queue, cuPc, cuWarp,
                   cuCounters, queue_mutex>>

\* a removeCompletedBlocks that takes the queue's mutex along with the CU's
RemoveLockBoth(c) ==
    /\ dPc = "none"
    /\ cu_mutex[c] = "free"
    /\ queue_mutex[c] = "free"
    /\ cu_mutex' = Lock(cu_mutex, c, "caller")
    /\ queue_mutex' = Lock(queue_mutex, c, "caller")
    /\ dPc' = "remove"
    /\ UNCHANGED <<lockRest, thread_blocks, warps, blk_completed, assigned, active_blocks,
                   ready_queue, cu_state, cuPc, cuWarp, cuCounters, dBlock, call>>

\* removeCompletedBlocks: lock_guard lock(cu_mutex_)
RemoveLock(c) ==
    /\ dPc = "none"
    /\ cu_mutex[c] = "free"
    /\ cu_mutex' = Lock(cu_mutex, c, "caller")
    /\ dPc' = "remove"
    /\ UNCHANGED <<lockRest, thread_blocks, warps, blk_completed, assigned, active_blocks,
                   ready_queue, cu_state, cuPc, cuWarp, cuCounters, dBlock, call, queue_mutex>>

\* the erase, state_ = IDLE when nothing is left, and the release
RemoveErase(c) ==
    /\ dPc = "remove"
    /\ active_blocks' = [active_blocks EXCEPT ![c] = RemoveCompleted(@)]
    /\ cu_state' = [cu_state EXCEPT ![c] =
                       IF RemoveCompleted(active_blocks[c]) = <<>> THEN "IDLE" ELSE @]
    /\ cu_mutex' = Unlock(cu_mutex, c)
    /\ dPc' = "none"
    /\ UNCHANGED <<lockRest, thread_blocks, warps, blk_completed, assigned, ready_queue,
                   cuPc, cuWarp, cuCounters, dBlock, call, queue_mutex>>

\* simulateCycle: cycles_executed_++, then getNextWarp's lock_guard lock(queue_mutex_)
GetNextWarpLock(c) ==
    /\ cuPc[c] = "none"
    /\ queue_mutex[c] = "free"
    /\ ready_queue[c] = <<>> => idle_cycles[c] < MaxIdle
    /\ cycles_executed' = [cycles_executed EXCEPT ![c] = @ + 1]
    /\ queue_mutex' = Lock(queue_mutex, c, "driver")
    /\ cuPc' = [cuPc EXCEPT ![c] = "get"]
    /\ UNCHANGED <<lockRest, wlVars, active_blocks, ready_queue, cu_state, cuWarp,
                   idle_cycles, instructions_executed, warps_executed,
                   cycles_stalled, total_memory_ops,
                   dPc, dBlock, call, cu_mutex>>

\* getNextWarp's body and return; without a warp simulateCycle counts an idle
\* cycle and returns
GetNextWarpPop(c) ==
    /\ cuPc[c] = "get"
    /\ IF ready_queue[c] = <<>>
       THEN /\ idle_cycles' = [idle_cycles EXCEPT ![c] = @ + 1]
            /\ cuPc' = [cuPc EXCEPT ![c] = "none"]
            /\ UNCHANGED <<ready_queue, cuWarp>>
       ELSE /\ cuWarp' = [cuWarp EXCEPT ![c] = Head(ready_queue[c])]
            /\ ready_queue' = [ready_queue EXCEPT ![c] = Tail(@)]
            /\ cuPc' = [cuPc EXCEPT ![c] = "execute"]
            /\ UNCHANGED idle_cycles
    /\ queue_mutex' = Unlock(queue_mutex, c)
    /\ UNCHANGED <<lockRest, wlVars, active_blocks, cu_state, cycles_executed,
                   instructions_executed, warps_executed,
                   cycles_stalled, total_memory_ops, dPc, dBlock,
                   call, cu_mutex>>

\* executeWarp(warp, 8) and the test of the instruction count; a warp that
\* reached it is set COMPLETED before the CU's mutex is asked for
ExecuteBatch(c) ==
    /\ cuPc[c] = "execute"
    /\ LET w == cuWarp[c]
           st == executeWarp(Counters(c, w), InstrPerBatch)
       IN /\ IF st.instr >= WarpDoneInstr
             THEN /\ warps' = [warps EXCEPT ![w] = WarpAfter(st, "COMPLETED")]
                  /\ cuPc' = [cuPc EXCEPT ![c] = "completed"]
             ELSE /\ warps' = [warps EXCEPT ![w] = WarpAfter(st, "READY")]
                  /\ cuPc' = [cuPc EXCEPT ![c] = "requeue"]
          /\ cycles_executed' = [cycles_executed EXCEPT ![c] = st.cycles]
          /\ instructions_executed' = [instructions_executed EXCEPT ![c] = st.cu_instr]
          /\ warps_executed' = [warps_executed EXCEPT ![c] = st.cu_warps]
          /\ cycles_stalled' = [cycles_stalled EXCEPT ![c] = st.cu_stalled]
          /\ total_memory_ops' = st.memory_ops
    /\ UNCHANGED <<lockRest, cfg, thread_blocks, wl_completed, blk_completed, assigned,
                   active_blocks, ready_queue, cu_state, cuWarp, idle_cycles, dPc, dBlock,
                   call, lockVars>>

\* the sweep's lock_guard lock(cu_mutex_)
SweepLock(c) ==
    /\ cuPc[c] = "completed"
    /\ cu_mutex[c] = "free"
    /\ cu_mutex' = Lock(cu_mutex, c, "driver")
    /\ cuPc' = [cuPc EXCEPT ![c] = "sweep"]
    /\ UNCHANGED <<lockRest, wlVars, active_blocks, ready_queue, cu_state, cuWarp,
                   cuCounters, dPc, dBlock, call, queue_mutex>>

\* the sweep over active_blocks_: markCompleted where every warp is COMPLETED
Sweep(c) ==
    /\ cuPc[c] = "sweep"
    /\ blk_completed' = blk_completed \cup Swept(c, warps)
    /\ cu_mutex' = Unlock(cu_mutex, c)
    /\ cuWarp' = [cuWarp EXCEPT ![c] = NoWarp]
    /\ cuPc' = [cuPc EXCEPT ![c] = "none"]
    /\ UNCHANGED <<lockRest, cfg, thread_blocks, wl_completed, warps, assigned,
                   active_blocks, ready_queue, cu_state, cuCounters, dPc, dBlock, call,
                   queue_mutex>>

\* the re-queue: warp_scheduler_.addWarp(warp), its lock_guard lock(queue_mutex_)
RequeueLock(c) ==
    /\ cuPc[c] = "requeue"
    /\ queue_mutex[c] = "free"
    /\ queue_mutex' = Lock(queue_mutex, c, "driver")
    /\ cuPc' = [cuPc EXCEPT ![c] = "push"]
    /\ UNCHANGED <<lockRest, wlVars, active_blocks, ready_queue, cu_state, cuWarp,
                   cuCounters, dPc, dBlock, call, cu_mutex>>

\* the body of that addWarp, and its return
RequeuePush(c) ==
    /\ cuPc[c] = "push"
    /\ ready_queue' = [ready_queue EXCEPT ![c] = addWarp(@, cuWarp[c])]
    /\ queue_mutex' = Unlock(queue_mutex, c)
    /\ cuWarp' = [cuWarp EXCEPT ![c] = NoWarp]
    /\ cuPc' = [cuPc EXCEPT ![c] = "none"]
    /\ UNCHANGED <<lockRest, wlVars, active_blocks, cu_state, cuCounters, dPc, dBlock,
                   call, cu_mutex>>

\* kernel 1 of the shapes the device's kernels have, generated
LockInit == \E total \in 1..MaxDevBlocks, threads \in ThreadChoices : DriverInit(total, threads)

LockNext ==
    \/ AssignBlockLock(1)
    \/ AssignBlockTest(1)
    \/ AddWarpLock(1)
    \/ AddWarpPush(1)
    \/ AssignBlockKeep(1)
    \/ RemoveLock(1)
    \/ RemoveErase(1)
    \/ GetNextWarpLock(1)
    \/ GetNextWarpPop(1)
    \/ ExecuteBatch(1)
    \/ SweepLock(1)
    \/ Sweep(1)
    \/ RequeueLock(1)
    \/ RequeuePush(1)

LockSpec == LockInit /\ [][LockNext]_vars


(***************************************************************************)
(* C25: the CU's mutex and the mutex of its warp queue.                    *)
(***************************************************************************)
LockThreads == {"caller", "driver"}

HoldsBoth(c, thread) == cu_mutex[c] = thread /\ queue_mutex[c] = thread

\* C25: no thread ever holds a CU's mutex and the mutex of that CU's warp
\* queue at the same time.
C25_NeverBothLocks ==
    \A c \in CUs : \A thread \in LockThreads : ~HoldsBoth(c, thread)

\* C25, as the code has it: a thread holds both mutexes only inside assignBlock,
\* during the addWarp it calls for each warp of the block; removeCompletedBlocks
\* and simulateCycle never hold both, and no thread takes the CU's mutex while
\* it holds the queue's.
C25_LockOrder ==
    /\ [](\A c \in CUs : \A thread \in LockThreads :
            HoldsBoth(c, thread) => thread = "caller" /\ dPc = "push")
    /\ [][\A c \in CUs : \A thread \in LockThreads :
            (cu_mutex'[c] = thread /\ cu_mutex[c] # thread) => queue_mutex[c] # thread
      ]_vars

\* assignBlock is inside addWarp with both mutexes while the driver, with a
\* warp to re-queue, waits for the queue's
C25_Witness ==
    /\ HoldsBoth(1, "caller")
    /\ dPc = "push"
    /\ cuPc[1] = "requeue"
    /\ active_blocks[1] # <<>>


(***************************************************************************)
(* Claims about the hand-over of blocks, checked under DevSpec and        *)
(* StopSpec.                                                              *)
(***************************************************************************)
\* the block the dispatcher holds leaves its hands only by an assignBlock that
\* put it on exactly one CU
HandedOver ==
    (dBlock # NoBlock /\ dBlock' # dBlock) =>
        /\ dBlock' = NoBlock
        /\ dBlock \in assigned'
        /\ Cardinality({c \in CUs : dBlock \in Range(active_blocks'[c])}) = 1

\* C26: in every execution, stop() during the dispatch included, every block
\* that getNextBlock removed from a kernel is eventually handed to exactly one
\* CU; the dispatcher keeps the block while no CU accepts it and never
\* discards it or pulls the next block first.
C26_BlockHandedOver ==
    /\ [][HandedOver]_vars
    /\ \A k \in Kernels : \A b \in 0..(MaxDevBlocks - 1) :
           (dBlock = <<k, b>>) ~> (<<k, b>> \in assigned)


\* the blocks that are on a CU
OnCUs == UNION {Range(active_blocks[c]) : c \in CUs}

\* a block that appears on CU c in a step was rejected by every CU before c in
\* the state the scan saw
PlacedOnFirst ==
    \A c \in CUs : \A blk \in Range(active_blocks'[c]) \ Range(active_blocks[c]) :
        \A d \in 1..(c - 1) : ~canAcceptBlock(d, blk)

\* while no block has been removed yet, the first block a CU received is still
\* one that no CU before it can take
FilledInOrder ==
    (assigned = OnCUs) =>
        \A c \in CUs : active_blocks[c] # <<>> =>
            \A d \in 1..(c - 1) : ~canAcceptBlock(d, Head(active_blocks[c]))

\* C27: a block is placed on the lowest-index CU that passes the admission
\* test at the time of the scan: it goes to CU i only if every CU before i
\* rejected it in that scan, so from empty CUs the first CU is filled to its
\* capacity before a block goes to the second.
C27_LowestIndexFirst ==
    /\ [][PlacedOnFirst]_vars
    /\ []FilledInOrder

\* a block sits on the second CU while the first, still holding every block it
\* was given, is full for it
C27_Witness ==
    /\ assigned = OnCUs
    /\ active_blocks[2] # <<>>
    /\ active_blocks[1] # <<>>
    /\ ~canAcceptBlock(1, Head(active_blocks[2]))


\* a CU is in state IDLE exactly when it has no active blocks
IdleIffEmpty == \A c \in CUs : (cu_state[c] = "IDLE") <=> (active_blocks[c] = <<>>)

\* active blocks leave a CU only by removeCompletedBlocks, which takes out
\* exactly the blocks whose completed flag is set
RemovedWereCompleted ==
    \A c \in CUs :
        (Len(active_blocks'[c]) < Len(active_blocks[c])) =>
            active_blocks'[c] = RemoveCompleted(active_blocks[c])

\* the completed flag of a kernel is set in a state where every CU is idle
CompletedWhenIdle ==
    \A k \in Kernels :
        (wl_completed'[k] /\ ~wl_completed[k]) =>
            \A c \in CUs : active_blocks[c] = <<>> /\ cu_state[c] = "IDLE"

\* C28: the dispatcher completes a kernel only when every CU is Idle, and a
\* CU is Idle exactly when it has no active blocks: assignBlock sets RUNNING,
\* removeCompletedBlocks removes exactly the completed blocks and sets IDLE iff
\* none remains.
C28_CompleteOnlyWhenIdle ==
    /\ []IdleIffEmpty
    /\ [][RemovedWereCompleted]_vars
    /\ [][CompletedWhenIdle]_vars

\* the part of C28 about the CU alone: it holds in every state of the device
C28_CUStateMatchesBlocks ==
    /\ []IdleIffEmpty
    /\ [][RemovedWereCompleted]_vars


(***************************************************************************)
(* A scheduler driven directly by a test that notes each call it makes:   *)
(* the constructor's FIFOScheduler, kernels added, marked and fetched in  *)
(* any order, kernels the scheduler never saw included.                   *)
(***************************************************************************)
callRest ==
    <<wlVars, cuVars, dev_running, dispVars, mPc, inWait, analyzerVars, global_memory,
      test_queue, lockVars>>

\* scheduler->addWorkload(k)
TestAddWorkload(k) ==
    /\ AddWorkload(k)
    /\ call' = <<"addWorkload", k, TRUE>>
    /\ UNCHANGED callRest

\* scheduler->markWorkloadRunning(k); the note says whether std::find found k
TestMarkWorkloadRunning(k) ==
    /\ MarkWorkloadRunning(k)
    /\ call' = <<"markWorkloadRunning", k, Find(pending, k) # 0>>
    /\ UNCHANGED callRest

\* scheduler->markWorkloadCompleted(k)
TestMarkWorkloadCompleted(k) ==
    /\ MarkWorkloadCompleted(k)
    /\ call' = <<"markWorkloadCompleted", k, Find(running, k) # 0>>
    /\ UNCHANGED callRest

\* scheduler->getNextWorkload(); the note has the kernel returned (0: nullptr)
TestGetNextWorkload ==
    /\ FIFOGetNextWorkload
    /\ call' = <<"getNextWorkload", IF pending = <<>> THEN 0 ELSE pending[NextIndex],
                 pending # <<>>>>
    /\ UNCHANGED callRest

CallNext ==
    \/ \E k \in Kernels : TestAddWorkload(k)
    \/ \E k \in Kernels : TestMarkWorkloadRunning(k)
    \/ \E k \in Kernels : TestMarkWorkloadCompleted(k)
    \/ TestGetNextWorkload

CallSpec == DevInit /\ [][CallNext]_vars

(***************************************************************************)
(* Claims about calls that find nothing to do, checked under CallSpec.    *)
(***************************************************************************)
Buckets == <<pending, running, completed>>

\* the step is a call of operation op
Called(op) == call'[1] = op /\ <<Buckets, call>>' # <<Buckets, call>>

NothingToMove ==
    /\ (Called("markWorkloadRunning") /\ ~InBucket(pending, call'[2]))
           => UNCHANGED <<Buckets, current_index>>
    /\ (Called("markWorkloadCompleted") /\ ~InBucket(running, call'[2]))
           => UNCHANGED <<Buckets, current_index>>
    /\ (Called("getNextWorkload") /\ pending = <<>>)
           => (call'[2] = 0 /\ UNCHANGED <<Buckets, current_index>>)

\* C29: markWorkloadRunning of a kernel not in pending, markWorkloadCompleted
\* of a kernel not in running (a second markWorkloadCompleted of the same
\* kernel included) and getNextWorkload on an empty pending list, which
\* returns none, leave pending, running and completed unchanged.
C29_NothingToMove == [][NothingToMove]_vars

\* a second markWorkloadCompleted of a kernel that is already completed, with
\* other kernels in the buckets
C29_Witness ==
    /\ call[1] = "markWorkloadCompleted"
    /\ call[3] = FALSE
    /\ InBucket(completed, call[2])
    /\ Len(pending) + Len(running) + Len(completed) >= 2


(***************************************************************************)
(* A device whose caller also calls stop() when the device is not         *)
(* running: before it was ever started, and again after a stop() has      *)
(* returned (reset() and the destructor do the latter). One kernel; the   *)
(* caller stops the device itself, at any point after the start.          *)
(***************************************************************************)
\* the caller calls stop() on the device it never started
CallStopEarly ==
    /\ mPc = "idle"
    /\ mPc' = "stop"
    /\ call' = <<"stop", "idle">>
    /\ UNCHANGED <<schedVars, histVars, wlVars, cuVars, dev_running, dispVars, inWait,
                   analyzerVars, global_memory, test_queue, lockVars>>

\* the caller calls stop() once more after a stop() has returned
CallStopAgain ==
    /\ mPc = "returned"
    /\ mPc' = "stop"
    /\ call' = <<"stop", "returned">>
    /\ UNCHANGED <<schedVars, histVars, wlVars, cuVars, dev_running, dispVars, inWait,
                   analyzerVars, global_memory, test_queue, lockVars>>

\* the caller's one kernel, of blocks of two warps
SubmitOne == \E total \in 1..MaxDevBlocks : SubmitWorkload(1, total, 40)

StopAgainNext ==
    \/ SubmitOne
    \/ ExecuteWorkloads
    \/ CallStop
    \/ CallStopEarly
    \/ CallStopAgain
    \/ StopFlag
    \/ StopCUs
    \/ StopJoin
    \/ DispatcherNext
    \/ \E c \in CUs : CUNext(c)

StopAgainSpec == DevInit /\ [][StopAgainNext]_vars

(***************************************************************************)
(* Claims about stop() on a device that is not running, checked under     *)
(* StopAgainSpec.                                                         *)
(***************************************************************************)
\* the step of a stop() that finds the device not running changes nothing but
\* the caller's position
StopNotRunning ==
    (mPc = "stop" /\ ~dev_running /\ mPc' # mPc) =>
        /\ mPc' = "returned"
        /\ UNCHANGED <<schedVars, histVars, wlVars, cuVars, dev_running, dispVars,
                       analyzerVars, global_memory>>

\* the device metrics are written only by the stop() that ends a simulation,
\* and a simulation becomes active only by a start
RecordedOnce ==
    (analyzerVars' # analyzerVars) =>
        \/ /\ ~dev_running /\ dev_running'
           /\ ~simulation_active /\ simulation_active'
           /\ UNCHANGED total_workloads_executed
        \/ /\ mPc = "join"
           /\ simulation_active /\ ~simulation_active'
           /\ total_workloads_executed' = Len(workload_metrics)

\* C30: stop() on a device that is not running, never started or already
\* stopped, changes nothing: the device metrics recorded by the stop() that
\* ended the simulation are recorded once per start and not overwritten or
\* zeroed by a later stop(), and no CU counter, CU state or scheduler bucket
\* changes.
C30_StopWhenStopped ==
    /\ [][StopNotRunning]_vars
    /\ [][RecordedOnce]_vars

\* a second stop() has returned on a device whose first stop() recorded a
\* kernel after its CUs had run cycles
C30_Witness ==
    /\ mPc = "returned"
    /\ call = <<"stop", "returned">>
    /\ total_workloads_executed > 0
    /\ \E c \in CUs : cycles_executed[c] > 0


(***************************************************************************)
(* Claims about the order in which the warps of one CU complete, checked  *)
(* under LiveSpec.                                                        *)
(***************************************************************************)
\* on CU c warp a entered the ready queue before warp b: assignBlock offers the
\* warps of a block in index order, and active_blocks_ keeps the blocks in the
\* order of their assignBlock calls
EnteredBefore(c, a, b) ==
    \E i, j \in 1..Len(active_blocks[c]) :
        /\ a \in WarpsOf(active_blocks[c][i])
        /\ b \in WarpsOf(active_blocks[c][j])
        /\ i < j \/ (i = j /\ a[3] < b[3])

\* on some CU a warp is COMPLETED while a warp that entered the queue before it
\* is not
LaterCompletedFirst ==
    \E c \in CUs : \E a, b \in DOMAIN warps :
        /\ EnteredBefore(c, a, b)
        /\ warps[b].state = "COMPLETED"
        /\ warps[a].state # "COMPLETED"

\* C31: within one CU there are executions in which a warp that entered the
\* ready queue later is marked COMPLETED before a warp that entered it earlier
\* (stated of the fair executions of the device: one of them gets there).
C31_LaterMayCompleteFirst == <>LaterCompletedFirst

\* C31 as the code has it: on every CU, in every state, a COMPLETED warp has
\* only COMPLETED warps among those that entered the ready queue before it:
\* warps complete in the order in which they entered.
C31_CompletedInArrivalOrder == ~LaterCompletedFirst

\* a warp is COMPLETED while a warp that entered the queue of the same CU after
\* it, from a later block, has run one batch and waits for its second
C31_Witness ==
    \E c \in CUs : \E a, b \in DOMAIN warps :
        /\ EnteredBefore(c, a, b)
        /\ a[2] # b[2]
        /\ warps[a].state = "COMPLETED"
        /\ warps[b].state # "COMPLETED"
        /\ warps[b].instr = InstrPerBatch


(***************************************************************************)
(* A RoundRobinScheduler and a FIFOScheduler given the same calls by one  *)
(* test. The scheduler variables hold the round-robin one; the FIFO one   *)
(* is the test's second object, kept in the test's note together with     *)
(* what the last getNextWorkload of each returned (0: nullptr).           *)
(***************************************************************************)
NewFifo == [pending |-> <<>>, running |-> <<>>, completed |-> <<>>, fifo_returned |-> 0,
            rr_returned |-> 0]

\* the FIFO scheduler of the test
Fifo == IF call = NoCall THEN NewFifo ELSE call[2]

\* Scheduler::addWorkload on the FIFO scheduler
FifoAddWorkload(s, k) == [s EXCEPT !.pending = Append(@, k)]

\* Scheduler::markWorkloadCompleted on the FIFO scheduler
FifoMarkWorkloadCompleted(s, k) ==
    LET it == Find(s.running, k) IN
    IF it # 0
    THEN [s EXCEPT !.running = Erase(@, it), !.completed = Append(@, k)]
    ELSE s

\* FIFOScheduler::getNextWorkload on the FIFO scheduler
FifoGetNextWorkload(s) ==
    IF s.pending = <<>> THEN [s EXCEPT !.fifo_returned = 0]
    ELSE [s EXCEPT !.pending = Erase(@, 1),
                   !.running = Append(@, s.pending[1]),
                   !.fifo_returned = s.pending[1]]

\* both->addWorkload(k)
BothAddWorkload(k) ==
    /\ AddWorkload(k)
    /\ call' = <<"addWorkload", FifoAddWorkload(Fifo, k)>>
    /\ UNCHANGED callRest

\* both->markWorkloadCompleted(k)
BothMarkWorkloadCompleted(k) ==
    /\ MarkWorkloadCompleted(k)
    /\ call' = <<"markWorkloadCompleted", FifoMarkWorkloadCompleted(Fifo, k)>>
    /\ UNCHANGED callRest

\* both->getNextWorkload()
BothGetNextWorkload ==
    /\ RoundRobinGetNextWorkload
    /\ call' = <<"getNextWorkload",
                 [FifoGetNextWorkload(Fifo) EXCEPT
                     !.rr_returned = IF pending = <<>> THEN 0 ELSE pending[NextIndex]]>>
    /\ UNCHANGED callRest

EquivInit ==
    /\ policy = "ROUND_ROBIN"
    /\ profile = 1
    /\ SchedulerInit
    /\ DeviceInit

EquivNext ==
    \/ \E k \in Kernels : BothAddWorkload(k)
    \/ \E k \in Kernels : BothMarkWorkloadCompleted(k)
    \/ BothGetNextWorkload

EquivSpec == EquivInit /\ [][EquivNext]_vars

\* C32: the Round-robin scheduler and the FIFO scheduler are observationally
\* equivalent: given the same addWorkload and getNextWorkload calls both
\* return the same kernel at every getNextWorkload and have the same pending,
\* running and completed buckets; the round-robin cursor stays 0.
C32_RoundRobinIsFifo ==
    /\ Fifo.pending = pending
    /\ Fifo.running = running
    /\ Fifo.completed = completed
    /\ Fifo.rr_returned = Fifo.fifo_returned
    /\ current_index = 0

\* both have just returned the second of three kernels, with the first
\* completed and the third still pending
C32_Witness ==
    /\ call[1] = "getNextWorkload"
    /\ Fifo.rr_returned = 2
    /\ completed = <<1>>
    /\ pending = <<3>>


(***************************************************************************)
(* Claims about the kernels in flight, checked under DevSpec.             *)
(***************************************************************************)
\* C33: with the single dispatcher the running bucket never holds more than
\* one kernel: the next kernel is pulled only after the previous one was moved
\* to completed, so the kernels enter completed in the order in which they
\* were dispatched.
C33_OneKernelRunning ==
    /\ Len(running) <= 1
    /\ Len(completed) <= Len(dispatched)
    /\ completed = SubSeq(dispatched, 1, Len(completed))
    /\ running = SubSeq(dispatched, Len(completed) + 1, Len(dispatched))

\* two kernels are completed, a third is running and has a block on a CU
C33_Witness ==
    /\ Len(completed) = 2
    /\ Len(running) = 1
    /\ \E c \in CUs : \E blk \in Range(active_blocks[c]) : blk[1] = running[1]


\* the kernels that have a block on a CU, a warp in a ready queue or a warp
\* with a CU driver
KernelsOnCUs ==
    {blk[1] : blk \in OnCUs}
        \cup UNION {{w[1] : w \in Range(ready_queue[c])} : c \in CUs}
        \cup {cuWarp[c][1] : c \in {d \in CUs : cuWarp[d] # NoWarp}}

\* the step assigns the first block of a kernel: before it no block of that
\* kernel was ever handed to a CU
AssignsFirstBlock ==
    /\ dBlock # NoBlock
    /\ dBlock \in assigned' \ assigned
    /\ \A blk \in assigned : blk[1] # dBlock[1]

\* C34: when stop() has not interrupted a kernel, every CU has no active
\* blocks at the moment the dispatcher assigns the first block of a kernel, so
\* blocks and queued warps of two different kernels are never on the CUs at
\* the same time.
C34_OneKernelOnCUs ==
    /\ [][AssignsFirstBlock => \A c \in CUs : active_blocks[c] = <<>>]_vars
    /\ [](Cardinality(KernelsOnCUs) <= 1)

\* a block of the second kernel is on a CU after the blocks of the first
\* kernel ran there and were removed
C34_Witness ==
    /\ KernelsOnCUs = {2}
    /\ InBucket(completed, 1)
    /\ \E blk \in assigned : blk[1] = 1 /\ blk \in blk_completed


(***************************************************************************)
(* The mutexes of the scheduler and of the device next to those of a CU:  *)
(* a main thread that submits a kernel and installs a scheduler, the      *)
(* dispatcher ("caller") with its scheduler calls between its calls on    *)
(* the CU, and the CU's driver. Each lock_guard is a step of its own.     *)
(***************************************************************************)
\* what no scheduler or device call changes
mutexRest ==
    <<wlVars, cuVars, dev_running, dWl, dBlock, workload_metrics, inWait, analyzerVars,
      global_memory, test_queue, call, cu_mutex, queue_mutex>>

\* lock_guard lock(scheduler_mutex_) at the top of a scheduler call made by the
\* main thread (addWorkload) or by the dispatcher (getNextWorkload,
\* markWorkloadCompleted)
SchedulerLock(thread) ==
    /\ scheduler_mutex = "free"
    /\ scheduler_mutex' = thread
    /\ IF thread = "main"
       THEN mPc = "idle" /\ submitted = 0 /\ mPc' = "sched" /\ UNCHANGED dPc
       ELSE dPc = "none" /\ dPc' = "sched" /\ UNCHANGED mPc
    /\ UNCHANGED <<mutexRest, schedVars, histVars, device_mutex>>

\* submitWorkload: the body of scheduler_->addWorkload and its return
AddWorkloadBody ==
    /\ mPc = "sched"
    /\ AddWorkload(1)
    /\ scheduler_mutex' = "free"
    /\ mPc' = "idle"
    /\ UNCHANGED <<mutexRest, dPc, device_mutex>>

\* a getNextWorkload that returns with the scheduler's mutex still held
GetNextWorkloadKeepsLock ==
    /\ dPc = "sched"
    /\ GetNextWorkload
    /\ dPc' = "none"
    /\ UNCHANGED <<mutexRest, mPc, scheduler_mutex, device_mutex>>

\* the dispatcher's getNextWorkload: its body and its return
GetNextWorkloadBody ==
    /\ dPc = "sched"
    /\ GetNextWorkload
    /\ scheduler_mutex' = "free"
    /\ dPc' = "none"
    /\ UNCHANGED <<mutexRest, mPc, device_mutex>>

\* the dispatcher's markWorkloadCompleted: its body and its return
MarkWorkloadCompletedBody ==
    /\ dPc = "sched"
    /\ running # <<>>
    /\ MarkWorkloadCompleted(running[1])
    /\ scheduler_mutex' = "free"
    /\ dPc' = "none"
    /\ UNCHANGED <<mutexRest, mPc, device_mutex>>

\* GPUDevice::setScheduler: lock_guard lock(device_mutex_)
SetSchedulerLock ==
    /\ mPc = "idle"
    /\ device_mutex = "free"
    /\ device_mutex' = "main"
    /\ mPc' = "set"
    /\ UNCHANGED <<mutexRest, schedVars, histVars, dPc, scheduler_mutex>>

\* scheduler_ = std::move(scheduler): a scheduler as constructed takes the place
\* of the old one, whose buckets go with it
SetSchedulerBody ==
    /\ mPc = "set"
    /\ pending' = <<>>
    /\ running' = <<>>
    /\ completed' = <<>>
    /\ current_index' = 0
    /\ device_mutex' = "free"
    /\ mPc' = "idle"
    /\ UNCHANGED <<mutexRest, policy, profile, histVars, dPc, scheduler_mutex>>

MutexNext ==
    \/ LockNext
    \/ SchedulerLock("main")
    \/ SchedulerLock("caller")
    \/ AddWorkloadBody
    \/ GetNextWorkloadBody
    \/ MarkWorkloadCompletedBody
    \/ SetSchedulerLock
    \/ SetSchedulerBody

MutexSpec == LockInit /\ [][MutexNext]_vars

(***************************************************************************)
(* Claims about deadlock, checked under MutexSpec.                        *)
(***************************************************************************)
MutexThreads == {"main", "caller", "driver"}

\* the mutexes thread holds
Holds(thread) ==
    {<<"cu", c>> : c \in {d \in CUs : cu_mutex[d] = thread}}
        \cup {<<"queue", c>> : c \in {d \in CUs : queue_mutex[d] = thread}}
        \cup (IF scheduler_mutex = thread THEN {<<"scheduler", 0>>} ELSE {})
        \cup (IF device_mutex = thread THEN {<<"device", 0>>} ELSE {})

\* the mutex whose lock_guard is the next statement of thread, inside the call
\* it is making
Wants(thread) ==
    CASE thread = "caller" ->
           IF dPc = "warps" /\ call[2] < getNumWarps(dBlock)
           THEN {<<"queue", c>> : c \in {d \in CUs : cu_mutex[d] = "caller"}}
           ELSE {}
      [] thread = "driver" ->
           {<<"cu", c>> : c \in {d \in CUs : cuPc[d] = "completed"}}
               \cup {<<"queue", c>> : c \in {d \in CUs : cuPc[d] = "requeue"}}
      [] OTHER -> {}

\* a set of threads each of which waits for a mutex that another of them holds
Deadlocked(S) ==
    /\ S # {}
    /\ \A t \in S : \E u \in S \ {t} : Wants(t) \cap Holds(u) # {}

\* the mutexes a step takes
Taken(thread) == {m \in Holds(thread)' : m \notin Holds(thread)}

IsCUMutex(m) == m[1] \in {"cu", "queue"}

LockNesting ==
    \A thread \in MutexThreads : \A m \in Taken(thread) :
        /\ Holds(thread) # {} =>
             /\ m[1] = "queue"
             /\ Holds(thread) = {<<"cu", m[2]>>}
             /\ thread = "caller" /\ dPc = "warps"
        /\ IsCUMutex(m) =>
             <<"scheduler", 0>> \notin Holds(thread) /\ <<"device", 0>> \notin Holds(thread)

\* C35: the dispatcher and the CU drivers never deadlock on mutexes: the only
\* nested acquisition is the queue mutex taken while holding the CU mutex, in
\* assignBlock; the reverse nesting never occurs, and no thread takes a CU or
\* queue mutex while it holds the scheduler mutex or the device mutex.
C35_NoMutexDeadlock ==
    /\ [](\A S \in SUBSET MutexThreads : ~Deadlocked(S))
    /\ [][LockNesting]_vars

\* the dispatcher, inside assignBlock with the CU's mutex, waits for the queue's
\* mutex, which the driver holds, while the main thread is inside a scheduler
\* call
C35_Witness ==
    /\ <<"queue", 1>> \in Wants("caller")
    /\ <<"queue", 1>> \in Holds("driver")
    /\ <<"cu", 1>> \in Holds("caller")
    /\ <<"scheduler", 0>> \in Holds("main")


(***************************************************************************)
(* The device with kernels of any block shape: blocks without threads and *)
(* blocks of more warps than a CU holds, next to kernels of two-warp      *)
(* blocks; the caller submits, starts the device and waits.               *)
(***************************************************************************)
\* the threads of a block that has one warp more than a CU can hold
OversizedThreads == WARP_SIZE * (MaxWarpsPerCU + 1)

\* KernelConfig accepts any threads_per_block; submitWorkload tests nothing
SubmitAny ==
    \E total \in 1..MaxDevBlocks, threads \in {0, 40, OversizedThreads} :
        SubmitWorkload(submitted + 1, total, threads)

ShapeNext ==
    \/ SubmitAny
    \/ CallerLive
    \/ DispatcherNext
    \/ \E c \in CUs : CUNext(c)

ShapeSpec ==
    /\ DevInit
    /\ [][ShapeNext]_vars
    /\ WF_vars(CallerLive)
    /\ WF_vars(DispatcherNext)
    /\ \A c \in CUs : WF_vars(CUNext(c))

(***************************************************************************)
(* Claims about blocks without warps, checked under ShapeSpec.            *)
(***************************************************************************)
\* kernel k was submitted with blocks that have no warps
ZeroWarpKernel(k) == k <= submitted /\ getTotalBlocks(k) > 0 /\ NumWarps(cfg[k].threads) = 0

\* a block without warps gets its completed flag only in a step in which a
\* warp of another block on the same CU becomes COMPLETED
ZeroMarkedBySweep ==
    \A c \in CUs : \A blk \in Range(active_blocks[c]) :
        (getNumWarps(blk) = 0 /\ blk \in blk_completed' \ blk_completed) =>
            \E other \in Range(active_blocks[c]) \ {blk} : \E w \in WarpsOf(other) :
                warps[w].state # "COMPLETED" /\ warps'[w].state = "COMPLETED"

\* C36: a block with zero warps is admitted by a CU but is marked completed
\* only if a warp of another block later completes on the same CU; a kernel
\* that has only such blocks never completes and waitForCompletion never
\* returns.
C36_ZeroWarpKernelHangs ==
    /\ [][ZeroMarkedBySweep]_vars
    /\ [](\A k \in Kernels : ZeroWarpKernel(k) =>
            ~wl_completed[k] /\ ~InBucket(completed, k))
    /\ []((\E k \in Kernels : ZeroWarpKernel(k)) => ~(inWait /\ mPc = "returned"))

\* the part of C36 that holds: a block without warps is admitted, its completed
\* flag is never set, and the completed flag of its kernel is set only after a
\* stop()
C36_ZeroWarpNeverSwept ==
    /\ [][ZeroMarkedBySweep]_vars
    /\ [](\A blk \in assigned : getNumWarps(blk) = 0 => blk \notin blk_completed)
    /\ [](\A k \in Kernels : (ZeroWarpKernel(k) /\ wl_completed[k]) => ~dev_running)


\* kernel k was submitted with blocks of more warps than a CU holds
OversizedKernel(k) ==
    k <= submitted /\ getTotalBlocks(k) > 0 /\ NumWarps(cfg[k].threads) > MaxWarpsPerCU

\* C37: a block with more warps than a CU holds is never admitted by any CU:
\* the dispatcher retries it forever, so its kernel and every kernel pending
\* behind it never reach completed and waitForCompletion never returns.
C37_OversizedBlockHangs ==
    /\ [](\A blk \in assigned : getNumWarps(blk) <= MaxWarpsPerCU)
    /\ [](\A k \in Kernels : OversizedKernel(k) =>
            \A j \in k..submitted : ~wl_completed[j] /\ ~InBucket(completed, j))
    /\ []((\E k \in Kernels : OversizedKernel(k)) => ~(inWait /\ mPc = "returned"))

\* the part of C37 that holds: no such block is ever admitted, while the
\* device runs the dispatcher keeps it, and its kernel and the kernels behind
\* it get their completed flag only after a stop()
C37_OversizedNeverAdmitted ==
    /\ [](\A blk \in assigned : getNumWarps(blk) <= MaxWarpsPerCU)
    /\ [][(dBlock # NoBlock /\ getNumWarps(dBlock) > MaxWarpsPerCU /\ dev_running) =>
            dBlock' = dBlock]_vars
    /\ [](\A k \in Kernels : OversizedKernel(k) =>
            \A j \in k..submitted : wl_completed[j] => ~dev_running)


(***************************************************************************)
(* A CU driven by ComputeUnit::run() while another thread assigns blocks  *)
(* to it and removes completed ones. run()'s test reads active_blocks_    *)
(* and the queue without a lock, and the other thread may act between the *)
(* test and simulateCycle's getNextWarp.                                  *)
(***************************************************************************)
\* a run() that calls simulateCycle whenever the CU has an active block
RunTestBlocksOnly(c) ==
    /\ cuPc[c] = "none"
    /\ active_blocks[c] # <<>>
    /\ cuPc' = [cuPc EXCEPT ![c] = "simulate"]
    /\ UNCHANGED <<lockRest, wlVars, active_blocks, ready_queue, cu_state, cuWarp,
                   cuCounters, dPc, dBlock, call, cu_mutex, queue_mutex>>

\* run(): if (!active_blocks_.empty() && warp_scheduler_.hasReadyWarps()); the
\* else branch sleeps and tests again
RunTest(c) ==
    /\ cuPc[c] = "none"
    /\ active_blocks[c] # <<>> /\ ready_queue[c] # <<>>
    /\ cuPc' = [cuPc EXCEPT ![c] = "simulate"]
    /\ UNCHANGED <<lockRest, wlVars, active_blocks, ready_queue, cu_state, cuWarp,
                   cuCounters, dPc, dBlock, call, cu_mutex, queue_mutex>>

\* simulateCycle called by run(): cycles_executed_++, then getNextWarp's
\* lock_guard lock(queue_mutex_)
RunSimulateCycle(c) ==
    /\ cuPc[c] = "simulate"
    /\ queue_mutex[c] = "free"
    /\ ready_queue[c] = <<>> => idle_cycles[c] < MaxIdle
    /\ cycles_executed' = [cycles_executed EXCEPT ![c] = @ + 1]
    /\ queue_mutex' = Lock(queue_mutex, c, "driver")
    /\ cuPc' = [cuPc EXCEPT ![c] = "get"]
    /\ UNCHANGED <<lockRest, wlVars, active_blocks, ready_queue, cu_state, cuWarp,
                   idle_cycles, instructions_executed, warps_executed,
                   cycles_stalled, total_memory_ops,
                   dPc, dBlock, call, cu_mutex>>

RunNext ==
    \/ AssignBlockLock(1)
    \/ AssignBlockTest(1)
    \/ AddWarpLock(1)
    \/ AddWarpPush(1)
    \/ AssignBlockKeep(1)
    \/ RemoveLock(1)
    \/ RemoveErase(1)
    \/ RunTest(1)
    \/ RunSimulateCycle(1)
    \/ GetNextWarpPop(1)
    \/ ExecuteBatch(1)
    \/ SweepLock(1)
    \/ Sweep(1)
    \/ RequeueLock(1)
    \/ RequeuePush(1)

RunSpec == LockInit /\ [][RunNext]_vars

\* C38: when a CU is driven by run(), simulateCycle never takes its no-warp
\* branch (run() calls it only with the ready queue not empty, and the driver
\* is the queue's only consumer), so idle_cycles stays 0 and the CU's
\* utilization is either 0, when it never executed a cycle, or exactly 100.
C38_NoIdleCycleUnderRun ==
    /\ [](\A c \in CUs :
            /\ idle_cycles[c] = 0
            /\ getUtilization(c) = (IF cycles_executed[c] = 0 THEN 0 ELSE 100 * PerCent)
            /\ cuPc[c] \in {"simulate", "get"} => ready_queue[c] # <<>>)
    /\ [][\A c \in CUs : (cuPc[c] = "get" /\ cuPc'[c] # "get") => cuPc'[c] = "execute"]_vars

\* run() has passed its test and is about to call simulateCycle while the
\* other thread, inside assignBlock, has since put another warp in the queue;
\* the CU has executed cycles before
C38_Witness ==
    /\ cuPc[1] = "simulate"
    /\ Len(ready_queue[1]) >= 2
    /\ dPc = "warps"
    /\ cycles_executed[1] > 0
    /\ getUtilization(1) = 100 * PerCent


(***************************************************************************)
(* GPUDevice::reset(): stop(), then resetMetrics() on every CU, then the   *)
(* analyzer's reset(). One kernel; the caller calls reset() on the device  *)
(* it never started, on the running device, and again after a reset().     *)
(***************************************************************************)
\* what reset() is said to leave alone: the stall counters, the memory
\* controller's counter, the CUs' blocks and queues, the three buckets
ResetFrame ==
    <<cycles_stalled, total_memory_ops, active_blocks, ready_queue, pending, running,
      completed>>

\* the caller calls reset(), which begins with stop(); the note keeps whether
\* the device was running at the call
CallReset ==
    /\ mPc \in {"idle", "started", "returned"}
    /\ call = NoCall \/ call[1] = "reset_done"
    /\ mPc' = "stop"
    /\ call' = <<"reset", dev_running>>
    /\ UNCHANGED <<schedVars, histVars, wlVars, cuVars, dev_running, dispVars, inWait,
                   analyzerVars, global_memory, test_queue, lockVars>>

\* a reset() whose resetMetrics() zeroes the stall counter as well
ResetBodyAlsoStalls ==
    /\ mPc = "returned"
    /\ call # NoCall
    /\ call[1] = "reset"
    /\ cycles_executed' = [c \in CUs |-> 0]
    /\ instructions_executed' = [c \in CUs |-> 0]
    /\ warps_executed' = [c \in CUs |-> 0]
    /\ idle_cycles' = [c \in CUs |-> 0]
    /\ cycles_stalled' = [c \in CUs |-> 0]
    /\ workload_metrics' = <<>>
    /\ total_workloads_executed' = 0
    /\ call' = <<"reset_done", call[2]>>
    /\ UNCHANGED <<schedVars, histVars, wlVars, active_blocks, ready_queue, cu_state,
                   cu_running, cuPc, cuWarp, total_memory_ops, dev_running, dPc, dWl,
                   dBlock, mPc, inWait, simulation_active, global_memory, test_queue,
                   lockVars>>

\* reset() after its stop() has returned: resetMetrics() of every CU
\* (cycles_executed_, instructions_executed_, warps_executed_, idle_cycles_ = 0),
\* PerformanceAnalyzer::reset() (workload_metrics_.clear(), gpu_metrics_ =
\* GPUMetrics{}); global_cycle_count_ = 0 writes a counter nothing else writes
ResetBody ==
    /\ mPc = "returned"
    /\ call # NoCall
    /\ call[1] = "reset"
    /\ cycles_executed' = [c \in CUs |-> 0]
    /\ instructions_executed' = [c \in CUs |-> 0]
    /\ warps_executed' = [c \in CUs |-> 0]
    /\ idle_cycles' = [c \in CUs |-> 0]
    /\ workload_metrics' = <<>>
    /\ total_workloads_executed' = 0
    /\ call' = <<"reset_done", call[2]>>
    /\ UNCHANGED <<schedVars, histVars, wlVars, active_blocks, ready_queue, cu_state,
                   cu_running, cuPc, cuWarp, cycles_stalled, total_memory_ops,
                   dev_running, dPc, dWl, dBlock, mPc, inWait, simulation_active,
                   global_memory, test_queue, lockVars>>

ResetNext ==
    \/ SubmitOne
    \/ ExecuteWorkloads
    \/ CallReset
    \/ StopFlag
    \/ StopCUs
    \/ StopJoin
    \/ ResetBody
    \/ DispatcherNext
    \/ \E c \in CUs : CUNext(c)

ResetSpec == DevInit /\ [][ResetNext]_vars

(***************************************************************************)
(* Claims about reset(), checked under ResetSpec.                         *)
(***************************************************************************)
InReset == call # NoCall /\ call[1] = "reset"

ResetDone == call # NoCall /\ call[1] = "reset_done"

\* C39 as stated: from the call of reset() to its return the stall counters,
\* the memory controller's counter, the CUs' blocks and queues and the three
\* buckets stay what they were when reset() was called.
C39_ResetLeavesFrame == [][InReset => UNCHANGED ResetFrame]_vars

\* the statements of reset() that follow its stop(): they run on a stopped
\* device, zero the four counters of every CU and the analyzer's records and
\* device metrics, and change nothing else
ResetBodyEffect ==
    (InReset /\ ResetDone') =>
        /\ ~dev_running /\ dPc = "none"
        /\ \A c \in CUs : ~cu_running[c] /\ cuPc[c] = "none"
        /\ \A c \in CUs : /\ cycles_executed'[c] = 0
                          /\ instructions_executed'[c] = 0
                          /\ warps_executed'[c] = 0
                          /\ idle_cycles'[c] = 0
        /\ workload_metrics' = <<>>
        /\ total_workloads_executed' = 0
        /\ UNCHANGED <<ResetFrame, schedVars, wlVars, cu_state, cu_running, cuPc,
                       dev_running, dPc, global_memory>>

\* once reset() has returned the device is stopped and stays as reset() left it
ResetResult ==
    ResetDone =>
        /\ ~dev_running /\ dPc = "none"
        /\ \A c \in CUs : /\ ~cu_running[c] /\ cuPc[c] = "none"
                          /\ cycles_executed[c] = 0
                          /\ instructions_executed[c] = 0
                          /\ warps_executed[c] = 0
                          /\ idle_cycles[c] = 0
        /\ workload_metrics = <<>>
        /\ total_workloads_executed = 0

\* on a device that was not running when reset() was called, nothing of the
\* frame changes between the call and the return
ResetOfStopped == (InReset /\ ~call[2]) => UNCHANGED ResetFrame

\* C39 (amended): reset() stops the device; its statements after stop() set
\* every CU's cycles_executed, instructions_executed, warps_executed and
\* idle_cycles to 0 and clear the analyzer's workload records and device
\* metrics, and themselves leave the stall counters, the memory controller's
\* counter, the CUs' active blocks and ready queues and the three buckets
\* unchanged; on a device that is not running when reset() is called these are
\* at the return what they were at the call. (On a running device the CU
\* threads and the dispatcher go on changing them until stop() has joined them.)
C39_ResetEffect ==
    /\ [][ResetBodyEffect]_vars
    /\ []ResetResult
    /\ [][ResetOfStopped]_vars

\* reset() has returned on a device that was running when it was called, whose
\* CUs had executed warps and stalled, with a block still on a CU
C39_Witness ==
    /\ ResetDone
    /\ call[2]
    /\ \E c \in CUs : cycles_stalled[c] > 0 /\ active_blocks[c] # <<>>
    /\ Len(completed) > 0


(***************************************************************************)
(* Claims about the counters of the CUs and of the memory controller,     *)
(* checked under DevSpec (and, for the part about single batches, under   *)
(* CuSpec and LockSpec, where simulateCycle also runs on an empty queue). *)
(***************************************************************************)
\* CU c is not inside simulateCycle
NoBatch(c) == cuPc[c] \in {"none", "spawned", "loop", "exited"}

RECURSIVE SumWarpsExecuted(_)
SumWarpsExecuted(c) == IF c = 0 THEN 0 ELSE warps_executed[c] + SumWarpsExecuted(c - 1)

RECURSIVE SumInstructions(_)
SumInstructions(c) ==
    IF c = 0 THEN 0 ELSE instructions_executed[c] + SumInstructions(c - 1)

RECURSIVE SumKernelWarps(_)
SumKernelWarps(k) ==
    IF k = 0 THEN 0 ELSE getTotalBlocks(k) * NumWarps(cfg[k].threads) + SumKernelWarps(k - 1)

\* the instructions a warp has executed when it is marked COMPLETED: the batches
\* it takes to reach the threshold (125 batches of 8 = 1000 in the source)
InstrPerWarp == BatchesToComplete * InstrPerBatch

\* between batches: 8 instructions, 41 cycles (1 of simulateCycle and 40 of the
\* stall) and 2 memory operations per executeWarp call, 1 cycle per idle call
BetweenBatches ==
    /\ \A c \in CUs :
           NoBatch(c) =>
               /\ instructions_executed[c] = 8 * warps_executed[c]
               /\ cycles_executed[c] = 41 * warps_executed[c] + idle_cycles[c]
    /\ (\A c \in CUs : NoBatch(c)) =>
           total_memory_ops = 2 * SumWarpsExecuted(NumCUs)

MemoryOpsMonotone == total_memory_ops' >= total_memory_ops

\* every kernel the caller submitted is in the completed bucket
AllCompleted == submitted > 0 /\ Len(completed) = submitted

InstructionsOfCompleted ==
    AllCompleted => SumInstructions(NumCUs) = InstrPerWarp * SumKernelWarps(submitted)

\* C40: whenever no batch is in progress each CU has instructions_executed =
\* 8 * warps_executed and cycles_executed = 41 * warps_executed + idle_cycles and
\* the memory controller has total_memory_ops = 2 * (sum of warps_executed);
\* total_memory_ops never decreases; once all submitted kernels are completed
\* the summed instruction count of the CUs is 1000 (here InstrPerWarp) times
\* the number of warps of those kernels.
C40_CounterInvariants ==
    /\ []BetweenBatches
    /\ [][MemoryOpsMonotone]_vars
    /\ []InstructionsOfCompleted

\* the part of C40 that holds: the per-batch identities and the monotonicity
C40_PerBatchCounters ==
    /\ []BetweenBatches
    /\ [][MemoryOpsMonotone]_vars

\* the part of C40 about completed kernels holds while the device has not
\* been stopped: then every completed kernel was executed
C40_InstructionsWhileRunning ==
    (AllCompleted /\ dev_running) =>
        SumInstructions(NumCUs) = InstrPerWarp * SumKernelWarps(submitted)

=============================================================================
